---------------------------- MODULE Spec2Model ----------------------------
(***************************************************************************)
(* Model of the filter engine of the Dynamic Filter Component System       *)
(* (utils/filterUtils.ts): path resolution, the per-type comparators, the  *)
(* validity filter, the single-condition evaluator and applyFilters; of    *)
(* the sort of DataTable; and of the condition list FilterBuilder and      *)
(* FilterRow maintain.                                                     *)
(*                                                                         *)
(* Five specifications share the variables: Spec (one call of              *)
(* applyFilters), FunctionSpec (one call of a comparator or of             *)
(* getNestedValue), TableSpec (the table: first render, then clicks on     *)
(* column headers), AppSpec (the table with the condition list changing)   *)
(* and BuilderSpec (the operations of the filter builder).  Each leaves    *)
(* the variables it does not use at rest.                                  *)
(*                                                                         *)
(* JavaScript values are tagged records; the tag k is the runtime shape:   *)
(*   "undefined", "null", "string" (s: sequence of characters),            *)
(*   "number" (n: integer, or nan = TRUE), "boolean" (b), "array" (a:      *)
(*   sequence of strings), "range" ({min, max}), "dateRange" ({startDate,  *)
(*   endDate}), "object" (f: own keys to values) and "function".           *)
(* A string is a sequence of one-character strings, so that toLowerCase,   *)
(* includes, startsWith, endsWith, parseFloat and Date parsing are         *)
(* computed character by character.                                        *)
(***************************************************************************)
EXTENDS Integers, Sequences, FiniteSets, TLC

VARIABLES
    data,          \* the record list handed to applyFilters
    filters,       \* the condition list handed to applyFilters
    tz,            \* the offset of the local time zone from UTC, in hours
    outcome,       \* "none" before the call, then "returned" or "threw"
    validSeen,     \* the value of the local validFilters of applyFilters
    result,        \* the list applyFilters returned
    call,          \* one call of a comparator or of getNestedValue
    ret,           \* the value that call returned
    sortConfig,    \* the state sortConfig of DataTable: null, or {key, direction}
    sortedData,    \* the memoized list sortedData of DataTable
    fields         \* the field definitions handed to FilterBuilder

vars ==
    <<data, filters, tz, outcome, validSeen, result, call, ret, sortConfig,
      sortedData, fields>>

(***************************************************************************)
(* Bounds of the exploration.                                              *)
(***************************************************************************)
MaxData == 2
MaxFilters == 3

(***************************************************************************)
(* JavaScript values.                                                      *)
(***************************************************************************)
Undefined == [k |-> "undefined"]
Null == [k |-> "null"]
Str(s) == [k |-> "string", s |-> s]
Num(n) == [k |-> "number", nan |-> FALSE, n |-> n]
NaN == [k |-> "number", nan |-> TRUE, n |-> 0]
Bool(b) == [k |-> "boolean", b |-> b]
Arr(a) == [k |-> "array", a |-> a]
Range(min, max) == [k |-> "range", min |-> min, max |-> max]
DateRange(startDate, endDate) ==
    [k |-> "dateRange", startDate |-> startDate, endDate |-> endDate]
Obj(f) == [k |-> "object", f |-> f]
Func == [k |-> "function"]

\* typeof v
TypeOf(v) ==
    CASE v.k = "undefined" -> "undefined"
      [] v.k = "string" -> "string"
      [] v.k = "number" -> "number"
      [] v.k = "boolean" -> "boolean"
      [] v.k = "function" -> "function"
      [] OTHER -> "object"

\* Array.isArray(v)
IsArray(v) == v.k = "array"

\* !!v
Truthy(v) ==
    CASE v.k = "undefined" -> FALSE
      [] v.k = "null" -> FALSE
      [] v.k = "string" -> v.s # <<>>
      [] v.k = "number" -> ~v.nan /\ v.n # 0
      [] v.k = "boolean" -> v.b
      [] OTHER -> TRUE

\* v === '' and v === null
IsEmptyString(v) == v.k = "string" /\ v.s = <<>>
IsNull(v) == v.k = "null"

\* 'key' in v, for v a non-null object of the FilterValue union
HasKey(v, key) ==
    CASE v.k = "range" -> key \in {"min", "max"}
      [] v.k = "dateRange" -> key \in {"startDate", "endDate"}
      [] OTHER -> FALSE

(***************************************************************************)
(* Strings.                                                                *)
(***************************************************************************)
Digits == <<"0", "1", "2", "3", "4", "5", "6", "7", "8", "9">>
IsDigit(c) == \E i \in 1..Len(Digits) : Digits[i] = c
DigitVal(c) == (CHOOSE i \in 1..Len(Digits) : Digits[i] = c) - 1

UpperLetters ==
    <<"A", "B", "C", "D", "E", "F", "G", "H", "I", "J", "K", "L", "M",
      "N", "O", "P", "Q", "R", "S", "T", "U", "V", "W", "X", "Y", "Z">>
LowerLetters ==
    <<"a", "b", "c", "d", "e", "f", "g", "h", "i", "j", "k", "l", "m",
      "n", "o", "p", "q", "r", "s", "t", "u", "v", "w", "x", "y", "z">>
LowerOf ==
    [c \in {UpperLetters[i] : i \in 1..Len(UpperLetters)} |->
        LowerLetters[CHOOSE i \in 1..Len(UpperLetters) : UpperLetters[i] = c]]

\* One character of String.prototype.toLowerCase
LowerChar(c) == IF c \in DOMAIN LowerOf THEN LowerOf[c] ELSE c

toLowerCase(s) == [i \in 1..Len(s) |-> LowerChar(s[i])]

\* s.includes(t), s.startsWith(t), s.endsWith(t)
includes(s, t) ==
    \E i \in 0..(Len(s) - Len(t)) : SubSeq(s, i + 1, i + Len(t)) = t
startsWith(s, t) == Len(t) <= Len(s) /\ SubSeq(s, 1, Len(t)) = t
endsWith(s, t) ==
    Len(t) <= Len(s) /\ SubSeq(s, Len(s) - Len(t) + 1, Len(s)) = t

\* The value of the digits s[i..j] read as a decimal numeral
RECURSIVE DecimalValue(_, _, _)
DecimalValue(s, i, j) ==
    IF j < i THEN 0 ELSE 10 * DecimalValue(s, i, j - 1) + DigitVal(s[j])

\* The end of the longest run of digits of s that starts at position i
RECURSIVE DigitRunEnd(_, _)
DigitRunEnd(s, i) ==
    IF i <= Len(s) /\ IsDigit(s[i]) THEN DigitRunEnd(s, i + 1) ELSE i - 1

\* parseFloat(s): an optional sign and the longest leading run of digits
\* (the strings of the model hold no white space, decimal point or exponent)
parseFloat(s) ==
    LET neg == s # <<>> /\ s[1] = "-"
        from == IF neg THEN 2 ELSE 1
        to == DigitRunEnd(s, from)
    IN  IF to < from THEN NaN
        ELSE Num((IF neg THEN -1 ELSE 1) * DecimalValue(s, from, to))

(***************************************************************************)
(* Dates.  A time is a number of milliseconds, counted from                *)
(* 2024-03-01T00:00:00Z so that it fits the integers of the checker (the   *)
(* comparisons of the code do not depend on the origin).  The date strings *)
(* of the model are the date-only ISO strings of March 2024, which the     *)
(* Date constructor reads as UTC midnight, and the date-time strings       *)
(* YYYY-MM-DDTHH:mmZ of that month; the other strings of the model that    *)
(* reach the Date constructor (empty, or letters only) give an Invalid     *)
(* Date, whose time value is NaN.                                          *)
(***************************************************************************)
MsPerMinute == 60 * 1000
MsPerHour == 60 * MsPerMinute
MsPerDay == 24 * MsPerHour

IsMarch2024Date(s) ==
    /\ Len(s) = 10
    /\ SubSeq(s, 1, 8) = <<"2", "0", "2", "4", "-", "0", "3", "-">>
    /\ IsDigit(s[9]) /\ IsDigit(s[10])
    /\ DecimalValue(s, 9, 10) \in 1..24

\* A date-time string of March 2024 in UTC: YYYY-MM-DDTHH:mmZ
IsMarch2024DateTime(s) ==
    /\ Len(s) = 17
    /\ IsMarch2024Date(SubSeq(s, 1, 10))
    /\ s[11] = "T" /\ s[14] = ":" /\ s[17] = "Z"
    /\ IsDigit(s[12]) /\ IsDigit(s[13]) /\ DecimalValue(s, 12, 13) \in 0..23
    /\ IsDigit(s[15]) /\ IsDigit(s[16]) /\ DecimalValue(s, 15, 16) \in 0..59

\* new Date(s).getTime()
DateParse(s) ==
    IF IsMarch2024Date(s)
    THEN Num((DecimalValue(s, 9, 10) - 1) * MsPerDay)
    ELSE IF IsMarch2024DateTime(s)
    THEN Num((DecimalValue(s, 9, 10) - 1) * MsPerDay
               + DecimalValue(s, 12, 13) * MsPerHour
               + DecimalValue(s, 15, 16) * MsPerMinute)
    ELSE NaN

\* d.setHours(23, 59, 59, 999): the last millisecond of the local calendar
\* day of d, in the zone whose local time is UTC + zone hours
setHoursEndOfDay(d, zone) ==
    IF d.nan THEN NaN
    ELSE LET local == d.n + zone * MsPerHour
             dayStart == local - (local % MsPerDay)
         IN  Num(dayStart + MsPerDay - 1 - zone * MsPerHour)

\* a < b and a > b on numbers and on Dates: false when either is NaN
Less(a, b) == ~a.nan /\ ~b.nan /\ a.n < b.n
Greater(a, b) == Less(b, a)

(***************************************************************************)
(* getNestedValue.  A path is a sequence of tokens, each the separator "." *)
(* or a run of other characters; split('.') joins the tokens between two   *)
(* separators into one key.                                                *)
(***************************************************************************)
RECURSIVE SplitFrom(_, _, _, _)
SplitFrom(path, i, cur, acc) ==
    IF i > Len(path) THEN Append(acc, cur)
    ELSE IF path[i] = "." THEN SplitFrom(path, i + 1, "", Append(acc, cur))
    ELSE SplitFrom(path, i + 1, cur \o path[i], acc)

\* path.split('.')
split(path) == SplitFrom(path, 1, "", <<>>)

\* Properties every object inherits from Object.prototype (a few of them);
\* each is a function
ObjectPrototypeKeys == {"constructor", "toString", "hasOwnProperty"}

\* key in current, for current an object or an array
KeyIn(key, current) ==
    CASE current.k = "object" ->
            key \in DOMAIN current.f \/ key \in ObjectPrototypeKeys
      [] current.k = "array" ->
            key = "length" \/ key \in ObjectPrototypeKeys
      [] OTHER -> HasKey(current, key) \/ key \in ObjectPrototypeKeys

\* current[key], when key in current
GetKey(current, key) ==
    CASE current.k = "object" /\ key \in DOMAIN current.f -> current.f[key]
      [] current.k = "array" /\ key = "length" -> Num(Len(current.a))
      [] current.k = "range" /\ key = "min" -> current.min
      [] current.k = "range" /\ key = "max" -> current.max
      [] current.k = "dateRange" /\ key = "startDate" -> current.startDate
      [] current.k = "dateRange" /\ key = "endDate" -> current.endDate
      [] OTHER -> Func

\* The callback of the reduce
NestedStep(current, key) ==
    IF Truthy(current) /\ TypeOf(current) = "object" /\ KeyIn(key, current)
    THEN GetKey(current, key)
    ELSE Undefined

RECURSIVE Reduce(_, _, _)
Reduce(keys, i, current) ==
    IF i > Len(keys) THEN current
    ELSE Reduce(keys, i + 1, NestedStep(current, keys[i]))

getNestedValue(obj, path) == Reduce(split(path), 1, obj)

(***************************************************************************)
(* The comparators.                                                        *)
(***************************************************************************)
\* filterText without the two toLowerCase calls
filterTextNoLower(value, filterValue, operator) ==
    CASE operator = "equals" -> value = filterValue
      [] operator = "contains" -> includes(value, filterValue)
      [] operator = "startsWith" -> startsWith(value, filterValue)
      [] operator = "endsWith" -> endsWith(value, filterValue)
      [] operator = "doesNotContain" -> ~includes(value, filterValue)
      [] OTHER -> TRUE

\* filterText with a default arm that returns false
filterTextFailClosed(value, filterValue, operator) ==
    LET lowerValue == toLowerCase(value)
        lowerFilter == toLowerCase(filterValue)
    IN  CASE operator = "equals" -> lowerValue = lowerFilter
          [] operator = "contains" -> includes(lowerValue, lowerFilter)
          [] operator = "startsWith" -> startsWith(lowerValue, lowerFilter)
          [] operator = "endsWith" -> endsWith(lowerValue, lowerFilter)
          [] operator = "doesNotContain" -> ~includes(lowerValue, lowerFilter)
          [] OTHER -> FALSE

filterText(value, filterValue, operator) ==
    LET lowerValue == toLowerCase(value)
        lowerFilter == toLowerCase(filterValue)
    IN  CASE operator = "equals" -> lowerValue = lowerFilter
          [] operator = "contains" -> includes(lowerValue, lowerFilter)
          [] operator = "startsWith" -> startsWith(lowerValue, lowerFilter)
          [] operator = "endsWith" -> endsWith(lowerValue, lowerFilter)
          [] operator = "doesNotContain" -> ~includes(lowerValue, lowerFilter)
          [] OTHER -> TRUE

\* value and filterValue are numbers (possibly NaN)
filterNumber(value, filterValue, operator) ==
    CASE operator = "equals" ->
            ~value.nan /\ ~filterValue.nan /\ value.n = filterValue.n
      [] operator = "greaterThan" -> Greater(value, filterValue)
      [] operator = "lessThan" -> Less(value, filterValue)
      [] operator = "greaterThanOrEqual" ->
            ~value.nan /\ ~filterValue.nan /\ value.n >= filterValue.n
      [] operator = "lessThanOrEqual" ->
            ~value.nan /\ ~filterValue.nan /\ value.n <= filterValue.n
      [] OTHER -> TRUE

\* value is a string, filterValue a {startDate, endDate} record
filterDateRange(value, filterValue) ==
    LET date == DateParse(value)
        startDate == filterValue.startDate
        endDate == filterValue.endDate
    IN  IF ~Truthy(startDate) /\ ~Truthy(endDate) THEN TRUE
        ELSE IF Truthy(startDate) /\ Less(date, DateParse(startDate.s))
        THEN FALSE
        ELSE IF /\ Truthy(endDate)
                /\ Greater(date, setHoursEndOfDay(DateParse(endDate.s), tz))
        THEN FALSE
        ELSE TRUE

\* typeof bound === 'string' ? parseFloat(bound) : bound
BoundNumber(bound) == IF bound.k = "string" THEN parseFloat(bound.s) ELSE bound

\* filterAmountRange with bounds that exclude the value equal to them
filterAmountRangeExclusive(value, filterValue) ==
    LET min == filterValue.min
        max == filterValue.max
    IN  IF IsNull(min) /\ IsNull(max) THEN TRUE
        ELSE IF IsEmptyString(min) /\ IsEmptyString(max) THEN TRUE
        ELSE IF /\ ~IsNull(min) /\ ~IsEmptyString(min)
                /\ ~BoundNumber(min).nan /\ ~Greater(value, BoundNumber(min))
        THEN FALSE
        ELSE IF /\ ~IsNull(max) /\ ~IsEmptyString(max)
                /\ ~BoundNumber(max).nan /\ ~Less(value, BoundNumber(max))
        THEN FALSE
        ELSE TRUE

\* value is a number, filterValue a {min, max} record
filterAmountRange(value, filterValue) ==
    LET min == filterValue.min
        max == filterValue.max
    IN  IF IsNull(min) /\ IsNull(max) THEN TRUE
        ELSE IF IsEmptyString(min) /\ IsEmptyString(max) THEN TRUE
        ELSE IF /\ ~IsNull(min) /\ ~IsEmptyString(min)
                /\ ~BoundNumber(min).nan /\ Less(value, BoundNumber(min))
        THEN FALSE
        ELSE IF /\ ~IsNull(max) /\ ~IsEmptyString(max)
                /\ ~BoundNumber(max).nan /\ Greater(value, BoundNumber(max))
        THEN FALSE
        ELSE TRUE

filterSingleSelect(value, filterValue, operator) ==
    LET lowerValue == toLowerCase(value)
        lowerFilter == toLowerCase(filterValue)
    IN  CASE operator = "is" -> lowerValue = lowerFilter
          [] operator = "isNot" -> lowerValue # lowerFilter
          [] OTHER -> TRUE

\* xs.includes(x) on an array of strings
arrayIncludes(xs, x) == \E i \in 1..Len(xs) : xs[i] = x

\* xs.map(v => v.toLowerCase())
mapToLowerCase(xs) == [i \in 1..Len(xs) |-> toLowerCase(xs[i])]

\* notIn read as "some selected value is missing" instead of "none is present"
filterMultiSelectNotEvery(value, filterValues, operator) ==
    IF Len(filterValues) = 0 THEN TRUE
    ELSE LET lowerValues == mapToLowerCase(value)
             lowerFilters == mapToLowerCase(filterValues)
         IN  CASE operator = "in" ->
                    \E i \in 1..Len(lowerFilters) :
                        arrayIncludes(lowerValues, lowerFilters[i])
               [] operator = "notIn" ->
                    ~(\A i \in 1..Len(lowerFilters) :
                        arrayIncludes(lowerValues, lowerFilters[i]))
               [] OTHER -> TRUE

\* value and filterValues are arrays of strings
filterMultiSelect(value, filterValues, operator) ==
    IF Len(filterValues) = 0 THEN TRUE
    ELSE LET lowerValues == mapToLowerCase(value)
             lowerFilters == mapToLowerCase(filterValues)
         IN  CASE operator = "in" ->
                    \E i \in 1..Len(lowerFilters) :
                        arrayIncludes(lowerValues, lowerFilters[i])
               [] operator = "notIn" ->
                    ~(\E i \in 1..Len(lowerFilters) :
                        arrayIncludes(lowerValues, lowerFilters[i]))
               [] OTHER -> TRUE

\* filterBoolean passing the records on which the flag is set
filterBooleanWhenSet(value, filterValue) == value

filterBoolean(value, filterValue) == value = filterValue

(***************************************************************************)
(* The validity filter and the evaluator of one condition.  A condition is *)
(* a record [id, field, operator, value]; field is a path.                 *)
(***************************************************************************)
\* A validity filter that looks at the shape of the value alone
hasValidFilterValueByShape(filter) ==
    LET value == filter.value
    IN  IF IsNull(value) \/ value.k = "undefined" THEN FALSE
        ELSE IF IsEmptyString(value) THEN FALSE
        ELSE IF value.k = "dateRange"
        THEN Truthy(value.startDate) \/ Truthy(value.endDate)
        ELSE IF value.k = "range"
        THEN \/ ~IsNull(value.min) /\ ~IsEmptyString(value.min)
             \/ ~IsNull(value.max) /\ ~IsEmptyString(value.max)
        ELSE IF IsArray(value) THEN Len(value.a) > 0
        ELSE TRUE

hasValidFilterValue(filter) ==
    LET value == filter.value
        operator == filter.operator
    IN  IF IsNull(value) \/ value.k = "undefined" THEN FALSE
        ELSE IF IsEmptyString(value) THEN FALSE
        ELSE IF operator = "between"
        THEN IF TypeOf(value) = "object" /\ ~IsNull(value)
             THEN IF HasKey(value, "startDate") \/ HasKey(value, "endDate")
                  THEN Truthy(value.startDate) \/ Truthy(value.endDate)
                  ELSE IF HasKey(value, "min") \/ HasKey(value, "max")
                  THEN \/ ~IsNull(value.min) /\ ~IsEmptyString(value.min)
                       \/ ~IsNull(value.max) /\ ~IsEmptyString(value.max)
                  ELSE FALSE
             ELSE FALSE
        ELSE IF IsArray(value) THEN Len(value.a) > 0
        ELSE TRUE

\* An evaluator on which an absent field passes the negative operators
applyFilterAbsentPasses(record, filter) ==
    LET field == filter.field
        operator == filter.operator
        value == filter.value
        fieldValue == getNestedValue(record, field)
    IN  IF IsNull(fieldValue) \/ fieldValue.k = "undefined"
        THEN operator \in {"isNot", "doesNotContain", "notIn"}
        ELSE IF TypeOf(fieldValue) = "string" /\ TypeOf(value) = "string"
        THEN IF operator = "is" \/ operator = "isNot"
             THEN filterSingleSelect(fieldValue.s, value.s, operator)
             ELSE filterText(fieldValue.s, value.s, operator)
        ELSE IF TypeOf(fieldValue) = "number" /\ TypeOf(value) = "number"
        THEN filterNumber(fieldValue, value, operator)
        ELSE IF /\ TypeOf(fieldValue) = "number" /\ operator = "between"
                /\ TypeOf(value) = "object" /\ ~IsNull(value)
                /\ (HasKey(value, "min") \/ HasKey(value, "max"))
        THEN filterAmountRange(fieldValue, value)
        ELSE IF /\ TypeOf(fieldValue) = "string" /\ operator = "between"
                /\ TypeOf(value) = "object" /\ ~IsNull(value)
                /\ (HasKey(value, "startDate") \/ HasKey(value, "endDate"))
        THEN filterDateRange(fieldValue.s, value)
        ELSE IF IsArray(fieldValue) /\ IsArray(value)
        THEN filterMultiSelect(fieldValue.a, value.a, operator)
        ELSE IF TypeOf(fieldValue) = "boolean" /\ TypeOf(value) = "boolean"
        THEN filterBoolean(fieldValue.b, value.b)
        ELSE TRUE

applyFilter(record, filter) ==
    LET field == filter.field
        operator == filter.operator
        value == filter.value
        fieldValue == getNestedValue(record, field)
    IN  IF IsNull(fieldValue) \/ fieldValue.k = "undefined" THEN FALSE
        ELSE IF TypeOf(fieldValue) = "string" /\ TypeOf(value) = "string"
        THEN IF operator = "is" \/ operator = "isNot"
             THEN filterSingleSelect(fieldValue.s, value.s, operator)
             ELSE filterText(fieldValue.s, value.s, operator)
        ELSE IF TypeOf(fieldValue) = "number" /\ TypeOf(value) = "number"
        THEN filterNumber(fieldValue, value, operator)
        ELSE IF /\ TypeOf(fieldValue) = "number" /\ operator = "between"
                /\ TypeOf(value) = "object" /\ ~IsNull(value)
                /\ (HasKey(value, "min") \/ HasKey(value, "max"))
        THEN filterAmountRange(fieldValue, value)
        ELSE IF /\ TypeOf(fieldValue) = "string" /\ operator = "between"
                /\ TypeOf(value) = "object" /\ ~IsNull(value)
                /\ (HasKey(value, "startDate") \/ HasKey(value, "endDate"))
        THEN filterDateRange(fieldValue.s, value)
        ELSE IF IsArray(fieldValue) /\ IsArray(value)
        THEN filterMultiSelect(fieldValue.a, value.a, operator)
        ELSE IF TypeOf(fieldValue) = "boolean" /\ TypeOf(value) = "boolean"
        THEN filterBoolean(fieldValue.b, value.b)
        ELSE TRUE

(***************************************************************************)
(* applyFilters.  The groups are kept in an object literal used as a map:  *)
(* reading acc[key] for a key the object does not own yields the property  *)
(* inherited from Object.prototype when there is one, which is truthy and  *)
(* has no push method, so that the call of push throws a TypeError.        *)
(***************************************************************************)
RECURSIVE Join(_, _)
\* The property name a path stands for: its tokens from i on, concatenated
Join(path, i) == IF i > Len(path) THEN "" ELSE path[i] \o Join(path, i + 1)

\* The index of the own property key of acc, 0 when acc does not own it
GroupIndex(groups, key) ==
    IF \E i \in 1..Len(groups) : groups[i].key = key
    THEN CHOOSE i \in 1..Len(groups) : groups[i].key = key
    ELSE 0

\* One step of the reduce that builds filtersByField: acc.groups holds the
\* own properties of the object in insertion order, acc.threw tells that
\* push was called on an inherited property
GroupStep(acc, filter) ==
    LET key == Join(filter.field, 1)
        i == GroupIndex(acc.groups, key)
    IN  IF acc.threw THEN acc
        ELSE IF i # 0
        THEN [acc EXCEPT !.groups[i].filters = Append(@, filter)]
        ELSE IF key \in ObjectPrototypeKeys
        THEN [acc EXCEPT !.threw = TRUE]
        ELSE [acc EXCEPT !.groups =
                  Append(@, [key |-> key, filters |-> <<filter>>])]

RECURSIVE GroupFrom(_, _, _)
GroupFrom(fs, i, acc) ==
    IF i > Len(fs) THEN acc ELSE GroupFrom(fs, i + 1, GroupStep(acc, fs[i]))

\* validFilters.reduce(..., {})
groupByField(validFilters) ==
    GroupFrom(validFilters, 1, [threw |-> FALSE, groups |-> <<>>])

\* A callback that asks the first condition of every group alone
KeepsRecordByFirst(groups, record) ==
    \A g \in 1..Len(groups) : applyFilter(record, groups[g].filters[1])

\* A callback on which every condition of every group has to pass
KeepsRecordByEvery(groups, record) ==
    \A g \in 1..Len(groups) :
        \A j \in 1..Len(groups[g].filters) :
            applyFilter(record, groups[g].filters[j])

\* The callback of data.filter: every group has some condition that passes
KeepsRecord(groups, record) ==
    \A g \in 1..Len(groups) :
        \E j \in 1..Len(groups[g].filters) :
            applyFilter(record, groups[g].filters[j])

\* applyFilters returning nothing when no condition is valid
applyFiltersNoneValidExcludesAll(records, conditions) ==
    LET validFilters == SelectSeq(conditions, hasValidFilterValue)
        filtersByField == groupByField(validFilters)
    IN  IF Len(validFilters) = 0
        THEN [outcome |-> "returned", value |-> <<>>]
        ELSE IF filtersByField.threw
        THEN [outcome |-> "threw", value |-> <<>>]
        ELSE [outcome |-> "returned",
              value |-> SelectSeq(records,
                            LAMBDA r : KeepsRecord(filtersByField.groups, r))]

\* applyFilters returning the kept records in reverse order
applyFiltersReversed(records, conditions) ==
    LET validFilters == SelectSeq(conditions, hasValidFilterValue)
        filtersByField == groupByField(validFilters)
        kept == SelectSeq(records,
                    LAMBDA r : KeepsRecord(filtersByField.groups, r))
    IN  IF Len(validFilters) = 0
        THEN [outcome |-> "returned", value |-> records]
        ELSE IF filtersByField.threw
        THEN [outcome |-> "threw", value |-> <<>>]
        ELSE [outcome |-> "returned",
              value |-> [i \in 1..Len(kept) |-> kept[Len(kept) + 1 - i]]]

\* The outcome of applyFilters(records, conditions): the list it returns,
\* or the TypeError it throws
applyFilters(records, conditions) ==
    LET validFilters == SelectSeq(conditions, hasValidFilterValue)
        filtersByField == groupByField(validFilters)
    IN  IF Len(validFilters) = 0
        THEN [outcome |-> "returned", value |-> records]
        ELSE IF filtersByField.threw
        THEN [outcome |-> "threw", value |-> <<>>]
        ELSE [outcome |-> "returned",
              value |-> SelectSeq(records,
                            LAMBDA r : KeepsRecord(filtersByField.groups, r))]

(***************************************************************************)
(* The inputs.  Employee records in the shape of types/index.ts (a few of  *)
(* its fields); the third one has a null name, no skills and no city.      *)
(***************************************************************************)
Mar14 == <<"2", "0", "2", "4", "-", "0", "3", "-", "1", "4">>
Mar15 == <<"2", "0", "2", "4", "-", "0", "3", "-", "1", "5">>
Mar16 == <<"2", "0", "2", "4", "-", "0", "3", "-", "1", "6">>

Employees ==
    { Obj([id |-> Num(1), name |-> Str(<<"A", "n", "n">>),
           salary |-> Num(20), joinDate |-> Str(Mar14),
           isActive |-> Bool(TRUE),
           skills |-> Arr(<<<<"g", "o">>, <<"r", "u", "s", "t">>>>),
           address |-> Obj([city |-> Str(<<"R", "o", "m", "e">>)])]),
      Obj([id |-> Num(2), name |-> Str(<<"A", "N", "N", "A">>),
           salary |-> Num(40), joinDate |-> Str(Mar15),
           isActive |-> Bool(FALSE),
           skills |-> Arr(<<<<"J", "a", "v", "a">>>>),
           address |-> Obj([city |-> Str(<<"O", "s", "l", "o">>)])]),
      Obj([id |-> Num(3), name |-> Null,
           salary |-> Num(100), joinDate |-> Str(Mar16),
           isActive |-> Bool(TRUE),
           address |-> Obj([state |-> Str(<<"N", "Y">>)])]) }

\* The offsets of the local time zone from UTC, in hours
TimeZones == {-5, 0, 5}

\* The time zone is read by filterDateRange alone, which runs only on a
\* date range: the calls that hold none are explored in UTC
ZonesFor(cs) ==
    IF \E i \in 1..Len(cs) : cs[i].value.k = "dateRange"
    THEN TimeZones
    ELSE {0}

FilterOperators ==
    {"equals", "contains", "startsWith", "endsWith", "doesNotContain",
     "greaterThan", "lessThan", "greaterThanOrEqual", "lessThanOrEqual",
     "between", "is", "isNot", "in", "notIn"}

FieldPaths ==
    { <<"name">>, <<"salary">>, <<"joinDate">>, <<"isActive">>, <<"skills">>,
      <<"address">>, <<"address", ".", "city">>, <<"missing">>,
      <<"constructor">> }

StringValues ==
    { <<>>, <<"a", "n">>, <<"N", "A">>, <<"n", "n">>, <<"A", "N", "N">>,
      <<"x">> }

NumberValues == {Num(0), Num(30), Num(40), NaN}

ArrayValues ==
    { <<>>, <<<<"g", "o">>>>, <<<<"G", "O">>>>, <<<<"j", "a", "v", "a">>>>,
      <<<<"g", "o">>, <<"j", "a", "v", "a">>>> }

RangeBounds == {Null, Str(<<>>), Num(30), Str(<<"a", "b", "c">>)}

DateBounds == {Null, Str(<<>>), Str(Mar15)}

\* The FilterValue union
FilterValues ==
    {Null} \cup {Str(s) : s \in StringValues} \cup NumberValues
      \cup {Bool(b) : b \in BOOLEAN} \cup {Arr(a) : a \in ArrayValues}
      \cup {Range(lo, hi) : lo \in RangeBounds, hi \in RangeBounds}
      \cup {DateRange(s, e) : s \in DateBounds, e \in DateBounds}

\* Every condition over the paths, operators and values above
AllConditions ==
    [field : FieldPaths, operator : FilterOperators, value : FilterValues]

\* The conditions the lists of several conditions are made of
SomeConditions ==
    { [field |-> <<"salary">>, operator |-> "greaterThan", value |-> Num(30)],
      [field |-> <<"salary">>, operator |-> "lessThan", value |-> Num(30)],
      [field |-> <<"name">>, operator |-> "contains",
       value |-> Str(<<"N", "A">>)],
      [field |-> <<"name">>, operator |-> "equals", value |-> Str(<<>>)] }

SeqsUpTo(S, n) == UNION {[1..m -> S] : m \in 0..n}

\* The conditions cs with the ids the builder gives them: all different
WithIds(cs) ==
    [i \in 1..Len(cs) |->
        [id |-> i, field |-> cs[i].field, operator |-> cs[i].operator,
         value |-> cs[i].value]]

\* The calls explored: every list of up to MaxData records with every list
\* of up to MaxFilters of SomeConditions, and every record with every
\* single condition
Inputs ==
    (SeqsUpTo(Employees, MaxData) \X SeqsUpTo(SomeConditions, MaxFilters))
      \cup {<<<<e>>, <<c>>>> : e \in Employees, c \in AllConditions}

(***************************************************************************)
(* The state machine: a caller holds a record list and a condition list,   *)
(* in some time zone, and calls applyFilters once.                         *)
(***************************************************************************)
Init ==
    /\ \E inp \in Inputs :
          /\ data = inp[1]
          /\ filters = WithIds(inp[2])
          /\ tz \in ZonesFor(inp[2])
    /\ outcome = "none"
    /\ validSeen = <<>>
    /\ result = <<>>
    /\ call = Null /\ ret = Undefined
    /\ sortConfig = Null /\ sortedData = <<>>
    /\ fields = <<>>

\* The call applyFilters(data, filters)
Apply ==
    /\ outcome = "none"
    /\ LET r == applyFilters(data, filters)
       IN  outcome' = r.outcome /\ result' = r.value
    /\ validSeen' = SelectSeq(filters, hasValidFilterValue)
    /\ UNCHANGED <<data, filters, tz, call, ret, sortConfig, sortedData, fields>>

Next == Apply

Spec == Init /\ [][Next]_vars

(***************************************************************************)
(* Vocabulary of the properties.                                           *)
(***************************************************************************)
Called == outcome # "none"
Returned == outcome = "returned"

RecordIndices == 1..Len(data)
FilterIndices == 1..Len(filters)

InResult(r) == \E k \in 1..Len(result) : result[k] = r

Present(fieldValue) == ~IsNull(fieldValue) /\ fieldValue.k # "undefined"

\* The resolved value of condition j on record i
FieldValue(i, j) == getNestedValue(data[i], filters[j].field)

\* The call was made with the single condition j = 1, which was valid, and
\* returned: record i is in the result iff the condition passed on it
SingleValidCall ==
    Returned /\ Len(filters) = 1 /\ Len(validSeen) = 1

\* xs is a subsequence of ys: an increasing choice of positions of ys
IsSubsequence(xs, ys) ==
    \E f \in [1..Len(xs) -> 1..Len(ys)] :
        /\ \A i \in 1..Len(xs) : xs[i] = ys[f[i]]
        /\ \A i \in 1..Len(xs) : \A k \in 1..Len(xs) : i < k => f[i] < f[k]

\* Two characters are the same letter, whatever their case
SameLetter(a, b) ==
    \/ a = b
    \/ \E i \in 1..Len(UpperLetters) :
          {a, b} = {UpperLetters[i], LowerLetters[i]}

\* Two strings are equal when case is ignored
EqualIgnoringCase(s, t) ==
    Len(s) = Len(t) /\ \A i \in 1..Len(s) : SameLetter(s[i], t[i])

\* The other case of a letter; any other character is left alone
Flip(c) ==
    IF \E i \in 1..Len(UpperLetters) : UpperLetters[i] = c
    THEN LowerLetters[CHOOSE i \in 1..Len(UpperLetters) : UpperLetters[i] = c]
    ELSE IF \E i \in 1..Len(LowerLetters) : LowerLetters[i] = c
    THEN UpperLetters[CHOOSE i \in 1..Len(LowerLetters) : LowerLetters[i] = c]
    ELSE c

\* Every string s becomes by changing the case of some of its letters
CaseVariants(s) ==
    {[i \in 1..Len(s) |-> IF i \in P THEN Flip(s[i]) ELSE s[i]] :
        P \in SUBSET {i \in 1..Len(s) : Flip(s[i]) # s[i]}}

TextOperators ==
    {"equals", "contains", "startsWith", "endsWith", "doesNotContain"}
NumberOperators ==
    {"equals", "greaterThan", "lessThan", "greaterThanOrEqual",
     "lessThanOrEqual"}

(***************************************************************************)
(* C1.  applyFilters keeps a record iff, for every field key that has at   *)
(* least one valid condition, at least one valid condition on that field   *)
(* evaluates true for the record (OR within a field, AND across fields).   *)
(***************************************************************************)
ValidIndices == {j \in FilterIndices : hasValidFilterValue(filters[j])}

FieldsWithValidCondition == {filters[j].field : j \in ValidIndices}

ShouldKeep(r) ==
    \A f \in FieldsWithValidCondition :
        \E j \in ValidIndices :
            filters[j].field = f /\ applyFilter(r, filters[j])

C1_AndAcrossFieldsOrWithinField ==
    Called => Returned /\ result = SelectSeq(data, ShouldKeep)

\* The same composition, for the calls that return a list
AndOrCompositionOfReturnedList ==
    Returned => result = SelectSeq(data, ShouldKeep)

\* Two valid conditions on salary and one on name: (A1 or A2) and B
AndOrExampleReached ==
    /\ Returned
    /\ Len(filters) = 3 /\ Len(validSeen) = 3
    /\ filters[1].field = filters[2].field
    /\ filters[3].field # filters[1].field
    /\ filters[1] # filters[2]
    /\ Len(data) = 2 /\ Len(result) = 1

(***************************************************************************)
(* C2.  applyFilters(R, []) and applyFilters(R, C) where every condition   *)
(* of C is invalid (no usable value) both return exactly R: the same       *)
(* elements in the same order.                                             *)
(***************************************************************************)
EmptyBound(b) == IsNull(b) \/ IsEmptyString(b)

\* The value is null, an empty string, an empty sequence, or a range or
\* date range whose two bounds are both null or empty
NoUsableValue(v) ==
    \/ IsNull(v)
    \/ IsEmptyString(v)
    \/ IsArray(v) /\ Len(v.a) = 0
    \/ v.k = "range" /\ EmptyBound(v.min) /\ EmptyBound(v.max)
    \/ v.k = "dateRange" /\ EmptyBound(v.startDate) /\ EmptyBound(v.endDate)

\* What the validity filter discards: the operator takes part.  Under
\* between only a range or date range with a bound that is neither null nor
\* empty is kept; under another operator every value is kept but null, the
\* empty string and the empty sequence
Discarded(c) ==
    \/ IsNull(c.value)
    \/ IsEmptyString(c.value)
    \/ /\ c.operator = "between"
       /\ ~(c.value.k \in {"range", "dateRange"} /\ ~NoUsableValue(c.value))
    \/ /\ c.operator # "between"
       /\ IsArray(c.value) /\ Len(c.value.a) = 0

\* C2 as stated: invalid means no usable value
C2_NoUsableValueIsIdentity ==
    (Called /\ \A j \in FilterIndices : NoUsableValue(filters[j].value))
        => Returned /\ result = data

\* C2 amended: when the validity filter discards every condition, the call
\* returns the record list itself
C2_AllDiscardedIsIdentity ==
    (Called /\ \A j \in FilterIndices : Discarded(filters[j]))
        => Returned /\ result = data

AllDiscardedReached ==
    /\ Returned
    /\ Len(filters) >= 1
    /\ \A j \in FilterIndices : Discarded(filters[j])
    /\ Len(data) = 2 /\ data[1] # data[2]
    /\ result = data

(***************************************************************************)
(* C3.  applyFilters(R, C) is a subsequence of R: every returned record is *)
(* an element of R, none is inserted or duplicated, and the kept records   *)
(* are in their order in R.                                                *)
(***************************************************************************)
C3_ResultIsSubsequence == Returned => IsSubsequence(result, data)

TwoKeptInOrderReached ==
    /\ Returned
    /\ Len(validSeen) >= 1
    /\ Len(data) = 2 /\ data[1] # data[2]
    /\ result = data

(***************************************************************************)
(* C4.  If the field path of a condition resolves to absent or null on a   *)
(* record, the condition evaluates false on it whatever the operator and   *)
(* value, the negative operators included; a record lacking a field is     *)
(* excluded whenever a valid condition references that field.              *)
(***************************************************************************)
C4_AbsentFieldFails ==
    Called => \A i \in RecordIndices : \A j \in FilterIndices :
        ~Present(FieldValue(i, j)) =>
            /\ ~applyFilter(data[i], filters[j])
            /\ (Returned /\ hasValidFilterValue(filters[j]))
                  => ~InResult(data[i])

AbsentFieldUnderNegativeOperatorReached ==
    /\ Returned
    /\ \E i \in RecordIndices : \E j \in FilterIndices :
          /\ ~Present(FieldValue(i, j))
          /\ filters[j].operator \in {"isNot", "doesNotContain", "notIn"}
          /\ hasValidFilterValue(filters[j])
          /\ ~InResult(data[i])

(***************************************************************************)
(* C5.  The validity filter discards a condition exactly when its value is *)
(* null, an empty string, an empty sequence, or a range or date range      *)
(* whose two bounds are both null or empty; every other value, whatever    *)
(* the operator, makes the condition valid.                                *)
(***************************************************************************)
\* C5 as stated: validity depends on the value alone
C5_DiscardedIffNoUsableValue ==
    Called =>
        validSeen = SelectSeq(filters, LAMBDA c : ~NoUsableValue(c.value))

\* C5 amended: under between a condition is valid exactly when its value is
\* a range or date range with a bound that is neither null nor empty; under
\* any other operator it is discarded exactly when its value is null, an
\* empty string or an empty sequence
C5_DiscardedByOperatorAndValue ==
    Called =>
        /\ \A j \in FilterIndices :
              hasValidFilterValue(filters[j]) <=> ~Discarded(filters[j])
        /\ validSeen = SelectSeq(filters, LAMBDA c : ~Discarded(c))

BetweenWithPlainStringDiscardedReached ==
    /\ Called
    /\ Len(filters) = 1
    /\ filters[1].operator = "between"
    /\ filters[1].value.k = "string" /\ filters[1].value.s # <<>>
    /\ validSeen = <<>>

(***************************************************************************)
(* C6.  For a present resolved value, when the shapes of the resolved      *)
(* value and of the condition value and the operator match none of the     *)
(* dispatch rules (an operator that is not legal for the shape pair        *)
(* included), the evaluator returns true and the record is not excluded by *)
(* that condition.                                                         *)
(***************************************************************************)
\* The dispatch rules of the evaluator, by shape pair and operator
RuleApplies(fieldValue, value, operator) ==
    \/ /\ fieldValue.k = "string" /\ value.k = "string"
       /\ operator \in TextOperators \cup {"is", "isNot"}
    \/ /\ fieldValue.k = "number" /\ value.k = "number"
       /\ operator \in NumberOperators
    \/ fieldValue.k = "number" /\ value.k = "range" /\ operator = "between"
    \/ fieldValue.k = "string" /\ value.k = "dateRange" /\ operator = "between"
    \/ /\ fieldValue.k = "array" /\ value.k = "array"
       /\ operator \in {"in", "notIn"}
    \/ fieldValue.k = "boolean" /\ value.k = "boolean"

C6_NoRuleFailsOpen ==
    Called => \A i \in RecordIndices : \A j \in FilterIndices :
        (/\ Present(FieldValue(i, j))
         /\ ~RuleApplies(FieldValue(i, j), filters[j].value,
                         filters[j].operator))
            => /\ applyFilter(data[i], filters[j])
               /\ SingleValidCall => InResult(data[i])

TwoStringsUnderGreaterThanReached ==
    /\ SingleValidCall
    /\ Len(data) = 1
    /\ FieldValue(1, 1).k = "string"
    /\ filters[1].value.k = "string"
    /\ filters[1].operator = "greaterThan"
    /\ result = data

(***************************************************************************)
(* C7.  applyFilters never raises: for every record list and every         *)
(* condition list it returns a record list instead of throwing.            *)
(***************************************************************************)
C7_NeverRaises == outcome # "threw"

(***************************************************************************)
(* C8.  For a record sequence S and a non-empty condition sequence V of    *)
(* strings, compared case-insensitively: in is true iff at least one       *)
(* element of V occurs in S, notIn is true iff no element of V occurs in   *)
(* S, and notIn is the negation of in on the same operands.                *)
(***************************************************************************)
\* Some element of V occurs in S, case ignored
SomeOccurs(V, S) ==
    \E a \in 1..Len(V) : \E b \in 1..Len(S) : EqualIgnoringCase(V[a], S[b])

\* Condition j is in or notIn, with a non-empty sequence, on a sequence
MultiSelectCase(i, j) ==
    /\ FieldValue(i, j).k = "array"
    /\ filters[j].value.k = "array" /\ Len(filters[j].value.a) > 0
    /\ filters[j].operator \in {"in", "notIn"}

OtherMultiSelectOperator(op) == IF op = "in" THEN "notIn" ELSE "in"

C8_InAndNotIn ==
    Called => \A i \in RecordIndices : \A j \in FilterIndices :
        MultiSelectCase(i, j) =>
            LET c == filters[j]
                expected ==
                    (c.operator = "in")
                        <=> SomeOccurs(c.value.a, FieldValue(i, j).a)
            IN  /\ applyFilter(data[i], c) <=> expected
                /\ applyFilter(data[i], c) <=>
                     ~applyFilter(data[i],
                         [c EXCEPT !.operator = OtherMultiSelectOperator(@)])
                /\ SingleValidCall => (InResult(data[i]) <=> expected)

\* skills [go, rust]: notIn [java] passes
NotInPassesReached ==
    /\ SingleValidCall
    /\ Len(data) = 1
    /\ MultiSelectCase(1, 1)
    /\ filters[1].operator = "notIn"
    /\ Len(FieldValue(1, 1).a) = 2
    /\ ~SomeOccurs(filters[1].value.a, FieldValue(1, 1).a)
    /\ result = data

(***************************************************************************)
(* C9.  A single notIn condition with two values [v1, v2] is not           *)
(* equivalent to the conjunction of notIn [v1] and notIn [v2]: there is a  *)
(* record sequence on which the two differ.                                *)
(***************************************************************************)
\* The record sequences and the values the comparison is tried on
SkillSequences ==
    ArrayValues \cup {e.f.skills.a : e \in {x \in Employees :
                                              "skills" \in DOMAIN x.f}}
SkillNames == UNION {{S[i] : i \in 1..Len(S)} : S \in SkillSequences}

\* The sequences the conditions of the call resolve to on its records
ResolvedSequences ==
    {FieldValue(i, j).a :
        <<i, j>> \in {p \in RecordIndices \X FilterIndices :
                        FieldValue(p[1], p[2]).k = "array"}}

\* C9 as stated: some record sequence tells the two apart
C9_NotInDiffersFromConjunction ==
    \E S \in SkillSequences \cup ResolvedSequences :
      \E v1 \in SkillNames : \E v2 \in SkillNames :
        filterMultiSelect(S, <<v1, v2>>, "notIn")
            # (/\ filterMultiSelect(S, <<v1>>, "notIn")
               /\ filterMultiSelect(S, <<v2>>, "notIn"))

\* C9 amended: a notIn condition with two values evaluates as the
\* conjunction of the two single-value notIn conditions, on every record
C9_NotInIsConjunction ==
    Called => \A i \in RecordIndices : \A j \in FilterIndices :
        (MultiSelectCase(i, j) /\ filters[j].operator = "notIn"
            /\ Len(filters[j].value.a) = 2) =>
            LET c == filters[j]
                both ==
                    /\ applyFilter(data[i],
                          [c EXCEPT !.value = Arr(<<c.value.a[1]>>)])
                    /\ applyFilter(data[i],
                          [c EXCEPT !.value = Arr(<<c.value.a[2]>>)])
            IN  /\ applyFilter(data[i], c) <=> both
                /\ SingleValidCall => (InResult(data[i]) <=> both)

\* skills [go, rust], notIn [go, java]: one value present, one missing
NotInOfTwoWithOnePresentReached ==
    /\ SingleValidCall
    /\ Len(data) = 1
    /\ MultiSelectCase(1, 1)
    /\ filters[1].operator = "notIn"
    /\ Len(filters[1].value.a) = 2
    /\ SomeOccurs(<<filters[1].value.a[1]>>, FieldValue(1, 1).a)
    /\ ~SomeOccurs(<<filters[1].value.a[2]>>, FieldValue(1, 1).a)
    /\ result = <<>>

(***************************************************************************)
(* C10.  When the resolved value and the condition value are both strings  *)
(* and the operator is a text operator, the result is the operator applied *)
(* with case ignored: equals is equality, contains is substring,           *)
(* startsWith is prefix, endsWith is suffix, doesNotContain is the         *)
(* negation of contains; changing the case of either operand never changes *)
(* the result.                                                             *)
(***************************************************************************)
ContainsIgnoringCase(s, t) ==
    \E p \in 0..(Len(s) - Len(t)) :
        EqualIgnoringCase(SubSeq(s, p + 1, p + Len(t)), t)

TextMeaning(operator, s, t) ==
    CASE operator = "equals" -> EqualIgnoringCase(s, t)
      [] operator = "contains" -> ContainsIgnoringCase(s, t)
      [] operator = "startsWith" ->
            Len(t) <= Len(s) /\ EqualIgnoringCase(SubSeq(s, 1, Len(t)), t)
      [] operator = "endsWith" ->
            /\ Len(t) <= Len(s)
            /\ EqualIgnoringCase(SubSeq(s, Len(s) - Len(t) + 1, Len(s)), t)
      [] operator = "doesNotContain" -> ~ContainsIgnoringCase(s, t)

TextCase(i, j) ==
    /\ FieldValue(i, j).k = "string"
    /\ filters[j].value.k = "string"
    /\ filters[j].operator \in TextOperators

C10_TextIgnoresCase ==
    Called => \A i \in RecordIndices : \A j \in FilterIndices :
        TextCase(i, j) =>
            LET c == filters[j]
                s == FieldValue(i, j).s
                t == c.value.s
                expected == TextMeaning(c.operator, s, t)
            IN  /\ applyFilter(data[i], c) <=> expected
                /\ \A s2 \in CaseVariants(s) : \A t2 \in CaseVariants(t) :
                      filterText(s2, t2, c.operator) <=> expected
                /\ SingleValidCall => (InResult(data[i]) <=> expected)

\* name "Ann" contains "AN"
ContainsInOtherCaseReached ==
    /\ SingleValidCall
    /\ Len(data) = 1
    /\ TextCase(1, 1)
    /\ filters[1].operator = "contains"
    /\ filters[1].value.s # toLowerCase(filters[1].value.s)
    /\ ~includes(FieldValue(1, 1).s, filters[1].value.s)
    /\ result = data

(***************************************************************************)
(* The functions, one call at a time.  A call is a record: fn names the    *)
(* function and the other fields are its arguments.  The call is drawn in  *)
(* the initial state and made by the action of its function.               *)
(***************************************************************************)
MaxDepth == 2

Mar15Noon == Mar15 \o <<"T", "1", "2", ":", "0", "0", "Z">>
Mar15Late == Mar15 \o <<"T", "2", "2", ":", "0", "0", "Z">>

\* The resolved values and the bounds of the date-range calls
DateStrings == {Mar14, Mar15, Mar16, Mar15Noon, Mar15Late}
DateRangeBounds == DateBounds \cup {Str(Mar14), Str(Mar16)}

DateRangeCalls ==
    [fn : {"filterDateRange"}, value : DateStrings,
     filterValue : {DateRange(s, e) : s \in DateRangeBounds,
                                      e \in DateRangeBounds}]

\* The resolved values and the bounds of the amount-range calls
AmountValues == {Num(20), Num(30), Num(40)}
AmountBounds ==
    RangeBounds \cup {Num(40), NaN, Str(<<"3", "0">>), Str(<<"4", "0", "x">>)}

AmountRangeCalls ==
    [fn : {"filterAmountRange"}, value : AmountValues,
     filterValue : {Range(lo, hi) : lo \in AmountBounds, hi \in AmountBounds}]

\* The paths of the getNestedValue calls: up to MaxDepth segments, among
\* them the empty one, joined by the separator
KeySegments ==
    {"name", "address", "city", "skills", "length", "constructor", "missing",
     ""}

RECURSIVE PathOf(_, _)
PathOf(segments, i) ==
    IF i > Len(segments) THEN <<>>
    ELSE IF i = Len(segments) THEN <<segments[i]>>
    ELSE <<segments[i], ".">> \o PathOf(segments, i + 1)

NestedPaths ==
    {PathOf(segs, 1) : segs \in UNION {[1..n -> KeySegments] : n \in 1..MaxDepth}}

NestedValueCalls == [fn : {"getNestedValue"}, obj : Employees, path : NestedPaths]

FunctionCalls == DateRangeCalls \cup AmountRangeCalls \cup NestedValueCalls

FunctionInit ==
    /\ call \in FunctionCalls
    /\ tz \in (IF call.fn = "filterDateRange" THEN TimeZones ELSE {0})
    /\ ret = Undefined
    /\ outcome = "none"
    /\ data = <<>> /\ filters = <<>> /\ validSeen = <<>> /\ result = <<>>
    /\ sortConfig = Null /\ sortedData = <<>>
    /\ fields = <<>>

\* The call filterDateRange(value, filterValue), in the time zone tz
CallFilterDateRange ==
    /\ outcome = "none" /\ call.fn = "filterDateRange"
    /\ ret' = Bool(filterDateRange(call.value, call.filterValue))
    /\ outcome' = "returned"
    /\ UNCHANGED <<data, filters, tz, validSeen, result, call, sortConfig,
                   sortedData, fields>>

\* The call filterAmountRange(value, filterValue)
CallFilterAmountRange ==
    /\ outcome = "none" /\ call.fn = "filterAmountRange"
    /\ ret' = Bool(filterAmountRange(call.value, call.filterValue))
    /\ outcome' = "returned"
    /\ UNCHANGED <<data, filters, tz, validSeen, result, call, sortConfig,
                   sortedData, fields>>

\* The call getNestedValue(obj, path)
CallGetNestedValue ==
    /\ outcome = "none" /\ call.fn = "getNestedValue"
    /\ ret' = getNestedValue(call.obj, call.path)
    /\ outcome' = "returned"
    /\ UNCHANGED <<data, filters, tz, validSeen, result, call, sortConfig,
                   sortedData, fields>>

FunctionNext ==
    CallFilterDateRange \/ CallFilterAmountRange \/ CallGetNestedValue

FunctionSpec == FunctionInit /\ [][FunctionNext]_vars

\* The call of fn has returned
ReturnedFrom(fn) == call # Null /\ call.fn = fn /\ outcome = "returned"

(***************************************************************************)
(* C11.  For a date-range condition on a string date value, a present      *)
(* startDate enforces date >= start, a present endDate enforces date <=    *)
(* the last instant of the end calendar day, an absent bound is not        *)
(* enforced, and both bounds absent matches unconditionally; a record      *)
(* dated exactly on the start day or on the end day passes.                *)
(*                                                                         *)
(* The end calendar day is read both ways: as a day of UTC and as a day of *)
(* the local zone.  A date that is no later than the last instant of the   *)
(* end day under both readings has to pass the end bound, and a date later *)
(* than it under both readings has to fail.                                *)
(***************************************************************************)
AbsentBound(b) == IsNull(b) \/ IsEmptyString(b)

\* The last instant of the calendar day that the date-only string e names,
\* the day taken in the zone whose local time is UTC + zone hours
LastInstantOfDay(e, zone) ==
    DateParse(e).n + MsPerDay - 1 - zone * MsPerHour

EarlierOf(a, b) == IF a <= b THEN a ELSE b
LaterOf(a, b) == IF a <= b THEN b ELSE a

\* The date passes the start bound of the call
StartHolds ==
    \/ AbsentBound(call.filterValue.startDate)
    \/ DateParse(call.value).n >= DateParse(call.filterValue.startDate.s).n

\* The date is within the end day, and beyond it, under both readings
EndSurelyHolds ==
    \/ AbsentBound(call.filterValue.endDate)
    \/ DateParse(call.value).n <=
          EarlierOf(LastInstantOfDay(call.filterValue.endDate.s, 0),
                    LastInstantOfDay(call.filterValue.endDate.s, tz))
EndSurelyFails ==
    /\ ~AbsentBound(call.filterValue.endDate)
    /\ DateParse(call.value).n >
          LaterOf(LastInstantOfDay(call.filterValue.endDate.s, 0),
                  LastInstantOfDay(call.filterValue.endDate.s, tz))

C11_DateRangeIsInclusive ==
    ReturnedFrom("filterDateRange") =>
        /\ (StartHolds /\ EndSurelyHolds) => ret = Bool(TRUE)
        /\ (~StartHolds \/ EndSurelyFails) => ret = Bool(FALSE)

\* The same on the values that are calendar dates (date-only strings): the
\* bounds are enforced in whole days, in every zone
DayOf(s) == DecimalValue(s, 9, 10)

DateRangeInWholeDays ==
    (ReturnedFrom("filterDateRange") /\ IsMarch2024Date(call.value)) =>
        ret = Bool(/\ \/ AbsentBound(call.filterValue.startDate)
                      \/ DayOf(call.value) >= DayOf(call.filterValue.startDate.s)
                   /\ \/ AbsentBound(call.filterValue.endDate)
                      \/ DayOf(call.value) <= DayOf(call.filterValue.endDate.s))

\* 2024-03-15 between 2024-03-15 and 2024-03-15, west of Greenwich
SameDayRangeReached ==
    /\ ReturnedFrom("filterDateRange")
    /\ call.value = Mar15
    /\ call.filterValue = DateRange(Str(Mar15), Str(Mar15))
    /\ tz < 0
    /\ ret = Bool(TRUE)

(***************************************************************************)
(* C12.  For an amount-range condition on a numeric value, each bound that *)
(* is present and parses as a number is enforced inclusively (value >=     *)
(* min, value <= max), a bound that is null, empty or not parseable as a   *)
(* number is ignored, and both bounds null or empty matches                *)
(* unconditionally.                                                        *)
(*                                                                         *)
(* A bound parses as a number when it is a number other than NaN, or a     *)
(* string that starts with a numeral (after an optional minus sign); the   *)
(* number is that of the numeral.                                          *)
(***************************************************************************)
StartsWithNumeral(s) ==
    \/ Len(s) >= 1 /\ IsDigit(s[1])
    \/ Len(s) >= 2 /\ s[1] = "-" /\ IsDigit(s[2])

ParsesAsNumber(b) ==
    \/ b.k = "number" /\ ~b.nan
    \/ b.k = "string" /\ StartsWithNumeral(b.s)

Enforced(b) == ~AbsentBound(b) /\ ParsesAsNumber(b)

C12_AmountRangeIsInclusive ==
    ReturnedFrom("filterAmountRange") =>
        ret = Bool(/\ Enforced(call.filterValue.min) =>
                        call.value.n >= BoundNumber(call.filterValue.min).n
                   /\ Enforced(call.filterValue.max) =>
                        call.value.n <= BoundNumber(call.filterValue.max).n)

\* between {min: "abc", max: 30} on the value 30: only the upper bound is
\* enforced, and the value equal to it passes
UnparseableMinAndEqualMaxReached ==
    /\ ReturnedFrom("filterAmountRange")
    /\ call.filterValue.min = Str(<<"a", "b", "c">>)
    /\ call.filterValue.max = Num(30)
    /\ call.value = Num(30)
    /\ ret = Bool(TRUE)

(***************************************************************************)
(* C13.  getNestedValue(record, path) walks the dot-separated segments of  *)
(* path level by level and returns the value reached; as soon as the       *)
(* current value is not a keyed structure or does not have the segment as  *)
(* a key the result is absent (undefined) for the whole path; the function *)
(* never throws.                                                           *)
(*                                                                         *)
(* The keyed structures are the objects and the arrays; the keys a value   *)
(* has are its own: the fields of an object, the length of an array.       *)
(***************************************************************************)
OwnKeys(v) ==
    CASE v.k = "object" -> DOMAIN v.f
      [] v.k = "array" -> {"length"}
      [] OTHER -> {}

\* The dot-separated segments of a path
RECURSIVE SegmentsOf(_, _)
SegmentsOf(path, i) ==
    IF i > Len(path) THEN <<"">>
    ELSE IF path[i] = "." THEN <<"">> \o SegmentsOf(path, i + 1)
    ELSE LET rest == SegmentsOf(path, i + 1)
         IN  <<path[i] \o Head(rest)>> \o Tail(rest)

\* The value reached from current along the segments from i on
RECURSIVE WalkOwnKeys(_, _, _)
WalkOwnKeys(current, segments, i) ==
    IF i > Len(segments) THEN current
    ELSE IF segments[i] \in OwnKeys(current)
    THEN WalkOwnKeys(GetKey(current, segments[i]), segments, i + 1)
    ELSE Undefined

C13_AbsentUnlessKeyOfValue ==
    ReturnedFrom("getNestedValue") =>
        ret = WalkOwnKeys(call.obj, SegmentsOf(call.path, 1), 1)

\* The same for the paths none of whose segments names a property inherited
\* from Object.prototype
NestedValueOfOwnNames ==
    LET segments == SegmentsOf(call.path, 1)
    IN  (/\ ReturnedFrom("getNestedValue")
         /\ \A i \in 1..Len(segments) : segments[i] \notin ObjectPrototypeKeys)
            => ret = WalkOwnKeys(call.obj, segments, 1)

\* address.city on a record that has an address with a city
NestedCityReached ==
    /\ ReturnedFrom("getNestedValue")
    /\ call.path = <<"address", ".", "city">>
    /\ ret = Str(<<"R", "o", "m", "e">>)

(***************************************************************************)
(* The sort of DataTable.  The comparator returns a number, of which the   *)
(* sort reads the sign.                                                    *)
(***************************************************************************)
MaxTable == 3

\* The decimal numeral of a natural number
RECURSIVE DigitsOf(_)
DigitsOf(n) ==
    IF n < 10 THEN <<Digits[n + 1]>>
    ELSE DigitsOf(n \div 10) \o <<Digits[(n % 10) + 1]>>

\* xs.join(',') on an array of strings
RECURSIVE JoinComma(_, _)
JoinComma(xs, i) ==
    IF i > Len(xs) THEN <<>>
    ELSE IF i = Len(xs) THEN xs[i]
    ELSE xs[i] \o <<",">> \o JoinComma(xs, i + 1)

\* String(v), for v neither null nor undefined (the text of a function is
\* cut to its first word)
StringOf(v) ==
    CASE v.k = "string" -> v.s
      [] v.k = "number" ->
            IF v.nan THEN <<"N", "a", "N">>
            ELSE IF v.n < 0 THEN <<"-">> \o DigitsOf(-v.n)
            ELSE DigitsOf(v.n)
      [] v.k = "boolean" ->
            IF v.b THEN <<"t", "r", "u", "e">> ELSE <<"f", "a", "l", "s", "e">>
      [] v.k = "array" -> JoinComma(v.a, 1)
      [] v.k = "function" -> <<"f", "u", "n", "c", "t", "i", "o", "n">>
      [] OTHER ->
            <<"[", "o", "b", "j", "e", "c", "t", " ",
              "O", "b", "j", "e", "c", "t", "]">>

\* The collation of localeCompare: punctuation, then digits, then letters;
\* the letters compare without their case first, and two strings that
\* differ by case alone compare by case, lower case first
CollationOrder ==
    <<" ", ",", "-", ".", ":", "[", "]">> \o Digits \o LowerLetters

CollationWeight ==
    [c \in {CollationOrder[i] : i \in 1..Len(CollationOrder)} |->
        CHOOSE i \in 1..Len(CollationOrder) : CollationOrder[i] = c]

PrimaryWeight(c) ==
    IF LowerChar(c) \in DOMAIN CollationWeight
    THEN CollationWeight[LowerChar(c)]
    ELSE 0

CaseWeight(c) == IF c \in DOMAIN LowerOf THEN 1 ELSE 0

\* The order of two sequences of weights: -1, 0 or 1
RECURSIVE CompareWeights(_, _, _)
CompareWeights(a, b, i) ==
    IF i > Len(a) /\ i > Len(b) THEN 0
    ELSE IF i > Len(a) THEN -1
    ELSE IF i > Len(b) THEN 1
    ELSE IF a[i] < b[i] THEN -1
    ELSE IF a[i] > b[i] THEN 1
    ELSE CompareWeights(a, b, i + 1)

\* s.localeCompare(t)
localeCompare(s, t) ==
    LET primary == CompareWeights([i \in 1..Len(s) |-> PrimaryWeight(s[i])],
                                  [i \in 1..Len(t) |-> PrimaryWeight(t[i])], 1)
    IN  IF primary # 0 THEN primary
        ELSE CompareWeights([i \in 1..Len(s) |-> CaseWeight(s[i])],
                            [i \in 1..Len(t) |-> CaseWeight(t[i])], 1)

\* compareValues where two equal booleans do not compare as 0
compareValuesNoTie(aValue, bValue) ==
    IF TypeOf(aValue) = "string" /\ TypeOf(bValue) = "string"
    THEN localeCompare(aValue.s, bValue.s)
    ELSE IF TypeOf(aValue) = "number" /\ TypeOf(bValue) = "number"
    THEN IF aValue.nan \/ bValue.nan THEN 0 ELSE aValue.n - bValue.n
    ELSE IF TypeOf(aValue) = "boolean" /\ TypeOf(bValue) = "boolean"
    THEN IF aValue.b THEN -1 ELSE 1
    ELSE localeCompare(StringOf(aValue), StringOf(bValue))

\* The comparison of two values that are neither null nor undefined (a
\* difference that is NaN counts as 0 for the sort)
compareValues(aValue, bValue) ==
    IF TypeOf(aValue) = "string" /\ TypeOf(bValue) = "string"
    THEN localeCompare(aValue.s, bValue.s)
    ELSE IF TypeOf(aValue) = "number" /\ TypeOf(bValue) = "number"
    THEN IF aValue.nan \/ bValue.nan THEN 0 ELSE aValue.n - bValue.n
    ELSE IF TypeOf(aValue) = "boolean" /\ TypeOf(bValue) = "boolean"
    THEN IF aValue.b = bValue.b THEN 0 ELSE IF aValue.b THEN -1 ELSE 1
    ELSE localeCompare(StringOf(aValue), StringOf(bValue))

\* A comparator that handles the absent values after the direction
compareAbsentByDirection(a, b, config) ==
    LET aValue == getNestedValue(a, config.key)
        bValue == getNestedValue(b, config.key)
        comparison ==
            IF IsNull(aValue) \/ aValue.k = "undefined" THEN 1
            ELSE IF IsNull(bValue) \/ bValue.k = "undefined" THEN -1
            ELSE compareValues(aValue, bValue)
    IN  IF config.direction = "asc" THEN comparison ELSE -comparison

\* The comparator handed to sort, under the sort config
compare(a, b, config) ==
    LET aValue == getNestedValue(a, config.key)
        bValue == getNestedValue(b, config.key)
    IN  IF IsNull(aValue) \/ aValue.k = "undefined" THEN 1
        ELSE IF IsNull(bValue) \/ bValue.k = "undefined" THEN -1
        ELSE IF config.direction = "asc" THEN compareValues(aValue, bValue)
        ELSE -compareValues(aValue, bValue)

(***************************************************************************)
(* Array.prototype.sort.  The sort is stable and orders two elements by    *)
(* the sign of the comparator on them.  It may call the comparator on a    *)
(* pair in either argument order: where the two calls agree the order of   *)
(* the pair is determined (the input order when both say 0), and where     *)
(* they contradict each other the engine decides, so that either order is  *)
(* a possible outcome.                                                     *)
(***************************************************************************)
\* The element at x may stand before the element at y in the sorted array;
\* c[x, y] is the result of the comparator on the two, in that order
MayPrecede(c, x, y) ==
    \/ c[x, y] < 0
    \/ c[y, x] > 0
    \/ c[x, y] = 0 /\ c[y, x] = 0 /\ x < y

\* The arrays rows.sort(compare) can become
sort(rows, config) ==
    LET n == Len(rows)
        c == [x \in 1..n, y \in 1..n |-> compare(rows[x], rows[y], config)]
    IN  {[i \in 1..n |-> rows[p[i]]] :
            p \in {q \in Permutations(1..n) :
                     \A i, j \in 1..n : i < j => MayPrecede(c, q[i], q[j])}}

\* The memo with a sort of the array it is given, in place
sortedDataInPlace(rows, config) ==
    IF config = Null THEN {[rows |-> rows, returned |-> rows]}
    ELSE {[rows |-> sorted, returned |-> sorted] : sorted \in sort(rows, config)}

\* The memo reversing the array when there is no sort config
sortedDataReversedByDefault(rows, config) ==
    IF config = Null
    THEN {[rows |-> rows,
           returned |-> [i \in 1..Len(rows) |-> rows[Len(rows) + 1 - i]]]}
    ELSE {[rows |-> rows, returned |-> sorted] : sorted \in sort(rows, config)}

\* The memo sortedData on the array rows (the prop data) under the sort
\* config: the outcomes it can have, each the array rows after the
\* computation and the array returned
sortedDataMemo(rows, config) ==
    IF config = Null THEN {[rows |-> rows, returned |-> rows]}
    ELSE {[rows |-> rows, returned |-> sorted] : sorted \in sort(rows, config)}

(***************************************************************************)
(* The table.  App hands DataTable the list applyFilters returns; the      *)
(* first render computes it and the memo; a click on the header of a       *)
(* sortable column sets the sort config, and the memo is computed anew.    *)
(***************************************************************************)
\* Two more employees: one more without a name and without a city, and one
\* with the name and the salary of the first
MoreEmployees ==
    { Obj([id |-> Num(4), name |-> Null,
           salary |-> Num(40), joinDate |-> Str(Mar14),
           isActive |-> Bool(FALSE),
           skills |-> Arr(<<<<"g", "o">>>>),
           address |-> Obj([state |-> Str(<<"N", "Y">>)])]),
      Obj([id |-> Num(5), name |-> Str(<<"A", "n", "n">>),
           salary |-> Num(20), joinDate |-> Str(Mar16),
           isActive |-> Bool(TRUE),
           skills |-> Arr(<<>>),
           address |-> Obj([city |-> Str(<<"O", "s", "l", "o">>)])]) }

TableRecords == Employees \cup MoreEmployees

\* The lists of up to MaxTable records, each record at most once
TableLists ==
    {rows \in SeqsUpTo(TableRecords, MaxTable) :
        \A i, j \in 1..Len(rows) : i # j => rows[i] # rows[j]}

\* The condition lists of the table: none, one condition, and two
\* conditions on different fields
TableFilterLists ==
    { <<>>,
      <<[field |-> <<"salary">>, operator |-> "greaterThan",
         value |-> Num(30)]>>,
      <<[field |-> <<"isActive">>, operator |-> "is", value |-> Bool(TRUE)],
        [field |-> <<"salary">>, operator |-> "lessThan",
         value |-> Num(100)]>> }

\* The keys of sortable columns: a number, a string, a boolean and a nested
\* string
SortableColumns ==
    { <<"id">>, <<"name">>, <<"salary">>, <<"isActive">>,
      <<"address", ".", "city">> }

TableInit ==
    /\ data \in TableLists
    /\ \E cs \in TableFilterLists : filters = WithIds(cs)
    /\ tz = 0
    /\ outcome = "none"
    /\ validSeen = <<>>
    /\ result = <<>>
    /\ call = Null /\ ret = Undefined
    /\ sortConfig = Null /\ sortedData = <<>>
    /\ fields = <<>>

\* The first render: App computes filteredData, DataTable computes the memo
Render ==
    /\ outcome = "none"
    /\ LET r == applyFilters(data, filters)
       IN  /\ outcome' = r.outcome
           /\ \E effect \in sortedDataMemo(r.value, sortConfig) :
                 result' = effect.rows /\ sortedData' = effect.returned
    /\ validSeen' = SelectSeq(filters, hasValidFilterValue)
    /\ UNCHANGED <<data, filters, tz, call, ret, sortConfig, fields>>

\* A click that turns the direction round whatever column was sorted
handleSortAnyColumn(columnKey) ==
    /\ outcome = "returned"
    /\ Len(result) # 0
    /\ LET direction ==
               IF sortConfig # Null /\ sortConfig.direction = "asc"
               THEN "desc"
               ELSE "asc"
           config == [key |-> columnKey, direction |-> direction]
       IN  /\ sortConfig' = config
           /\ \E effect \in sortedDataMemo(result, config) :
                 result' = effect.rows /\ sortedData' = effect.returned
    /\ UNCHANGED <<data, filters, tz, outcome, validSeen, call, ret, fields>>

\* A click on the header of a column: the header row is there when the
\* list is not empty
handleSort(columnKey) ==
    /\ outcome = "returned"
    /\ Len(result) # 0
    /\ LET direction ==
               IF /\ sortConfig # Null
                  /\ sortConfig.key = columnKey
                  /\ sortConfig.direction = "asc"
               THEN "desc"
               ELSE "asc"
           config == [key |-> columnKey, direction |-> direction]
       IN  /\ sortConfig' = config
           /\ \E effect \in sortedDataMemo(result, config) :
                 result' = effect.rows /\ sortedData' = effect.returned
    /\ UNCHANGED <<data, filters, tz, outcome, validSeen, call, ret, fields>>

TableNext == Render \/ \E columnKey \in SortableColumns : handleSort(columnKey)

TableSpec == TableInit /\ [][TableNext]_vars

\* The table has been rendered
Rendered == outcome = "returned" /\ call = Null /\ fields = <<>>
Sorted == Rendered /\ sortConfig # Null

\* The value of a record at the sort key
SortKeyValue(record) == getNestedValue(record, sortConfig.key)

\* The position of a record in a list that holds it once
PositionIn(rows, record) == CHOOSE i \in 1..Len(rows) : rows[i] = record

(***************************************************************************)
(* C14.  In the sorted output, every record whose value at the sort key is *)
(* absent (or null) comes after every record whose value is present, both  *)
(* when the direction is asc and when it is desc.                          *)
(***************************************************************************)
C14_AbsentSortedLast ==
    Sorted =>
        \A i, j \in 1..Len(sortedData) :
            (/\ ~Present(SortKeyValue(sortedData[i]))
             /\ Present(SortKeyValue(sortedData[j]))) => j < i

\* A descending sort of a list that starts with a record without the key
AbsentLastWhenDescendingReached ==
    /\ Sorted
    /\ sortConfig.direction = "desc"
    /\ Len(result) = 3
    /\ ~Present(SortKeyValue(result[1]))
    /\ Present(SortKeyValue(result[2])) /\ Present(SortKeyValue(result[3]))
    /\ SortKeyValue(result[2]) # SortKeyValue(result[3])
    /\ sortedData[3] = result[1]

(***************************************************************************)
(* C15.  The sort is stable: any two records whose values at the sort key  *)
(* compare equal appear in the output in the same relative order as in the *)
(* input, in both directions.                                              *)
(*                                                                         *)
(* Two values compare equal when both are present and the same.            *)
(***************************************************************************)
SameKeyValue(a, b) ==
    Present(SortKeyValue(a)) /\ SortKeyValue(a) = SortKeyValue(b)

C15_SortIsStable ==
    Sorted =>
        \A i, j \in 1..Len(result) :
            (i < j /\ SameKeyValue(result[i], result[j])) =>
                PositionIn(sortedData, result[i])
                    < PositionIn(sortedData, result[j])

\* A descending sort that moves a pair of equal keys before a smaller key
EqualKeysKeepOrderWhenDescendingReached ==
    /\ Sorted
    /\ sortConfig.direction = "desc"
    /\ Len(result) = 3
    /\ SameKeyValue(result[2], result[3])
    /\ sortedData = <<result[2], result[3], result[1]>>

(***************************************************************************)
(* C16.  When no sort config is set, the sort step returns its input       *)
(* unchanged: the same records in the same order as the filtered list it   *)
(* was given.                                                              *)
(***************************************************************************)
C16_NoSortConfigReturnsInput ==
    (Rendered /\ sortConfig = Null) => sortedData = result

\* A filtered list of two records that no sort key had left in this order
UnsortedListShownReached ==
    /\ Rendered
    /\ sortConfig = Null
    /\ Len(result) = 2
    /\ result[1].f.id.n > result[2].f.id.n
    /\ sortedData = result

(***************************************************************************)
(* C17.  Neither applyFilters nor the sort step mutates its inputs: after  *)
(* any call the input record list has the same elements in the same order, *)
(* every record is unchanged, and every condition object is unchanged;     *)
(* sorting works on a copy of the list.                                    *)
(***************************************************************************)
C17_InputsNotMutated ==
    [][/\ data' = data
       /\ filters' = filters
       /\ outcome = "returned" => result' = result]_vars

\* A sort that returned another order than that of the list it was given,
\* which is still the list applyFilters returns
SortedCopyDiffersFromInputReached ==
    /\ Sorted
    /\ sortedData # result
    /\ result = applyFilters(data, filters).value
    /\ Len(result) < Len(data)

(***************************************************************************)
(* C18.  The sort comparator treats a record with an absent sort-key value *)
(* as greater than any record with a present value and as equal to another *)
(* record whose value is also absent (comparison result 0), so records     *)
(* with absent keys keep their relative input order among themselves.      *)
(***************************************************************************)
C18_AbsentComparesEqualToAbsent ==
    Sorted =>
        \A i, j \in 1..Len(result) :
            (i # j /\ ~Present(SortKeyValue(result[i]))) =>
                IF Present(SortKeyValue(result[j]))
                THEN compare(result[i], result[j], sortConfig) > 0
                ELSE /\ compare(result[i], result[j], sortConfig) = 0
                     /\ i < j => PositionIn(sortedData, result[i])
                                    < PositionIn(sortedData, result[j])

\* The part on a present value: the absent one is the greater of the two,
\* in whichever order the comparator is given them
AbsentGreaterThanPresent ==
    Sorted =>
        \A i, j \in 1..Len(result) :
            (/\ ~Present(SortKeyValue(result[i]))
             /\ Present(SortKeyValue(result[j]))) =>
                /\ compare(result[i], result[j], sortConfig) > 0
                /\ compare(result[j], result[i], sortConfig) < 0

\* Two records without the key come out of the sort in the other order
AbsentKeysSwappedReached ==
    /\ Sorted
    /\ Len(result) = 2
    /\ ~Present(SortKeyValue(result[1])) /\ ~Present(SortKeyValue(result[2]))
    /\ sortedData = <<result[2], result[1]>>

(***************************************************************************)
(* C19.  When the resolved value and the condition value are both          *)
(* booleans, the evaluator returns true iff the two are equal, whatever    *)
(* the condition's operator is.                                            *)
(***************************************************************************)
BooleanCase(i, j) ==
    /\ TypeOf(FieldValue(i, j)) = "boolean"
    /\ TypeOf(filters[j].value) = "boolean"

C19_BooleansPassIffEqual ==
    Called =>
        \A i \in RecordIndices : \A j \in FilterIndices :
            BooleanCase(i, j) =>
                applyFilter(data[i], filters[j])
                    = (FieldValue(i, j).b = filters[j].value.b)

\* isActive isNot false on an inactive record: the record is kept
EqualBooleansUnderIsNotReached ==
    /\ SingleValidCall
    /\ Len(data) = 1
    /\ BooleanCase(1, 1)
    /\ filters[1].operator = "isNot"
    /\ FieldValue(1, 1) = Bool(FALSE) /\ filters[1].value = Bool(FALSE)
    /\ result = data

(***************************************************************************)
(* The filter builder.  FilterBuilder holds the condition list (the state  *)
(* filters of App) and the field definitions it is given; FilterRow shows  *)
(* one condition.  A field definition is a record [key, type, options],    *)
(* key a path and options a sequence of strings.                           *)
(***************************************************************************)
MaxRows == 2

OPERATORS_BY_TYPE ==
    [text |-> <<"equals", "contains", "startsWith", "endsWith",
                "doesNotContain">>,
     number |-> <<"equals", "greaterThan", "lessThan", "greaterThanOrEqual",
                  "lessThanOrEqual">>,
     date |-> <<"between">>,
     amount |-> <<"between">>,
     singleSelect |-> <<"is", "isNot">>,
     multiSelect |-> <<"in", "notIn">>,
     boolean |-> <<"is">>]

\* One field definition of each type, on the keys of the employee records
FieldDefinitions ==
    << [key |-> <<"name">>, type |-> "text", options |-> <<>>],
       [key |-> <<"id">>, type |-> "number", options |-> <<>>],
       [key |-> <<"joinDate">>, type |-> "date", options |-> <<>>],
       [key |-> <<"salary">>, type |-> "amount", options |-> <<>>],
       [key |-> <<"address", ".", "city">>, type |-> "singleSelect",
        options |-> << <<"R", "o", "m", "e">>, <<"O", "s", "l", "o">> >>],
       [key |-> <<"skills">>, type |-> "multiSelect",
        options |-> << <<"g", "o">>, <<"J", "a", "v", "a">> >>],
       [key |-> <<"isActive">>, type |-> "boolean", options |-> <<>>] >>

\* The lists of field definitions the builder is given: two definitions
\* that follow each other in FieldDefinitions, taken in a circle, so that a
\* definition of each type comes first in one list and second in another
FieldLists ==
    { <<FieldDefinitions[k],
        FieldDefinitions[(k % Len(FieldDefinitions)) + 1]>> :
            k \in 1..Len(FieldDefinitions) }

\* fields.find((f) => f.key === key): the index of the definition, or 0
FindField(key) ==
    IF \E k \in 1..Len(fields) : fields[k].key = key
    THEN CHOOSE k \in 1..Len(fields) :
            /\ fields[k].key = key
            /\ \A l \in 1..(k - 1) : fields[l].key # key
    ELSE 0

\* generateFilterId(): an id no condition of the list has (the ids are a
\* time stamp and a random string, taken never to repeat)
generateFilterId == CHOOSE id \in 1..(Len(filters) + 1) :
                        \A i \in 1..Len(filters) : filters[i].id # id

\* A default value that is the empty string for every type
DefaultValueEmptyString(type) == Str(<<>>)

\* A default value that is 0 for a number field
DefaultValueZero(type) ==
    CASE type = "date" -> DateRange(Null, Null)
      [] type = "amount" -> Range(Null, Null)
      [] type = "multiSelect" -> Arr(<<>>)
      [] type = "boolean" -> Bool(TRUE)
      [] type = "number" -> Num(0)
      [] OTHER -> Str(<<>>)

\* The value a new condition, or a condition whose field changed, starts
\* with
DefaultValue(type) ==
    CASE type = "date" -> DateRange(Null, Null)
      [] type = "amount" -> Range(Null, Null)
      [] type = "multiSelect" -> Arr(<<>>)
      [] type = "boolean" -> Bool(TRUE)
      [] OTHER -> Str(<<>>)

\* A first operator that is contains for every type
AddFilterOperatorContains(type) == "contains"

\* The operator handleAddFilter gives a new condition
AddFilterOperator(type) ==
    CASE type = "text" -> "contains"
      [] type = "number" -> "equals"
      [] type = "date" -> "between"
      [] type = "amount" -> "between"
      [] type = "singleSelect" -> "is"
      [] type = "multiSelect" -> "in"
      [] OTHER -> "is"

\* { ...f, ...updates }
Merge(f, updates) ==
    [k \in DOMAIN f \cup DOMAIN updates |->
        IF k \in DOMAIN updates THEN updates[k] ELSE f[k]]

\* An update that reaches every condition of the list
handleUpdateFilterOfAll(filterId, updates) ==
    [i \in 1..Len(filters) |-> Merge(filters[i], updates)]

\* handleUpdateFilter(filterId, updates): the new condition list
handleUpdateFilter(filterId, updates) ==
    [i \in 1..Len(filters) |->
        IF filters[i].id = filterId THEN Merge(filters[i], updates)
        ELSE filters[i]]

\* xs without x when it holds x, with x at its end otherwise: a click on an
\* option of the multiple select
Toggle(xs, x) ==
    IF arrayIncludes(xs, x) THEN SelectSeq(xs, LAMBDA y : y # x)
    ELSE Append(xs, x)

TypedTexts == {<<>>, <<"a", "n">>}
TypedNumbers == {Str(<<>>), Num(30)}
PickedDates == {Null, Str(Mar15)}
TypedAmounts == {Null, Num(30)}

\* The values the input of a field definition can hand to handleValueChange
\* when it shows the value
InputValues(field, value) ==
    CASE field.type = "text" -> {Str(s) : s \in TypedTexts}
      [] field.type = "number" -> TypedNumbers
      [] field.type = "date" ->
            LET shown == IF Truthy(value) THEN value ELSE DateRange(Null, Null)
            IN  {[shown EXCEPT !.startDate = b] : b \in PickedDates}
                  \cup {[shown EXCEPT !.endDate = b] : b \in PickedDates}
      [] field.type = "amount" ->
            LET shown == IF Truthy(value) THEN value ELSE Range(Null, Null)
            IN  {[shown EXCEPT !.min = b] : b \in TypedAmounts}
                  \cup {[shown EXCEPT !.max = b] : b \in TypedAmounts}
      [] field.type = "singleSelect" ->
            {Str(field.options[o]) : o \in 1..Len(field.options)}
      [] field.type = "multiSelect" ->
            LET shown == IF Truthy(value) THEN value ELSE Arr(<<>>)
            IN  {Arr(Toggle(shown.a, field.options[o])) :
                    o \in 1..Len(field.options)}
      [] OTHER -> {Bool(b) : b \in BOOLEAN}

BuilderInit ==
    /\ fields \in FieldLists
    /\ filters = <<>>
    /\ data = <<>> /\ tz = 0 /\ outcome = "none"
    /\ validSeen = <<>> /\ result = <<>>
    /\ call = Null /\ ret = Undefined
    /\ sortConfig = Null /\ sortedData = <<>>

\* Add Filter: a new condition on the first field definition
handleAddFilter ==
    /\ Len(filters) < MaxRows
    /\ LET defaultField == fields[1]
           newFilter == [id |-> generateFilterId,
                         field |-> defaultField.key,
                         operator |-> AddFilterOperator(defaultField.type),
                         value |-> DefaultValue(defaultField.type)]
       IN  filters' = Append(filters, newFilter)
    /\ UNCHANGED <<data, tz, outcome, validSeen, result, call, ret, sortConfig,
                   sortedData, fields>>

\* The field select of row i is set to newFieldKey
handleFieldChange(i, newFieldKey) ==
    /\ i \in 1..Len(filters)
    /\ LET k == FindField(newFieldKey)
       IN  IF k # 0
           THEN filters' =
                    handleUpdateFilter(filters[i].id,
                        [field |-> newFieldKey,
                         operator |-> OPERATORS_BY_TYPE[fields[k].type][1],
                         value |-> DefaultValue(fields[k].type)])
           ELSE filters' = filters
    /\ UNCHANGED <<data, tz, outcome, validSeen, result, call, ret, sortConfig,
                   sortedData, fields>>

\* The operators the operator select of a condition offers
availableOperators(filter) ==
    LET k == FindField(filter.field)
    IN  IF k = 0 THEN <<>> ELSE OPERATORS_BY_TYPE[fields[k].type]

\* The operator select of row i is set to the o-th operator it offers
handleOperatorChange(i, o) ==
    /\ i \in 1..Len(filters)
    /\ o \in 1..Len(availableOperators(filters[i]))
    /\ filters' = handleUpdateFilter(filters[i].id,
                      [operator |-> availableOperators(filters[i])[o]])
    /\ UNCHANGED <<data, tz, outcome, validSeen, result, call, ret, sortConfig,
                   sortedData, fields>>

\* The value input of row i hands over newValue
handleValueChange(i, newValue) ==
    /\ i \in 1..Len(filters)
    /\ FindField(filters[i].field) # 0
    /\ newValue \in InputValues(fields[FindField(filters[i].field)],
                                filters[i].value)
    /\ filters' = handleUpdateFilter(filters[i].id, [value |-> newValue])
    /\ UNCHANGED <<data, tz, outcome, validSeen, result, call, ret, sortConfig,
                   sortedData, fields>>

\* The remove button of row i
handleRemoveFilter(i) ==
    /\ i \in 1..Len(filters)
    /\ filters' = SelectSeq(filters, LAMBDA f : f.id # filters[i].id)
    /\ UNCHANGED <<data, tz, outcome, validSeen, result, call, ret, sortConfig,
                   sortedData, fields>>

\* Clear All, shown when the list is not empty
handleClearAll ==
    /\ Len(filters) > 0
    /\ filters' = <<>>
    /\ UNCHANGED <<data, tz, outcome, validSeen, result, call, ret, sortConfig,
                   sortedData, fields>>

BuilderNext ==
    \/ handleAddFilter
    \/ \E i \in 1..Len(filters) : \E k \in 1..Len(fields) :
          handleFieldChange(i, fields[k].key)
    \/ \E i \in 1..Len(filters) :
          \E o \in 1..Len(availableOperators(filters[i])) :
              handleOperatorChange(i, o)
    \/ \E i \in 1..Len(filters) :
          \E newValue \in InputValues(fields[FindField(filters[i].field)],
                                      filters[i].value) :
              handleValueChange(i, newValue)
    \/ \E i \in 1..Len(filters) : handleRemoveFilter(i)
    \/ handleClearAll

BuilderSpec == BuilderInit /\ [][BuilderNext]_vars

\* The builder is at work
Building == fields # <<>>

(***************************************************************************)
(* C20.  After any sequence of builder operations (add filter, change      *)
(* field, change operator from the offered list, change value, remove      *)
(* filter, clear all), every condition in the list has an operator that    *)
(* belongs to the legal-operator set of the type of the field definition   *)
(* it references.                                                          *)
(*                                                                         *)
(* The legal operators of a type are those of its operator type            *)
(* (TextOperator, NumberOperator, ...).                                    *)
(***************************************************************************)
LegalOperators(type) ==
    CASE type = "text" -> TextOperators
      [] type = "number" -> NumberOperators
      [] type = "date" -> {"between"}
      [] type = "amount" -> {"between"}
      [] type = "singleSelect" -> {"is", "isNot"}
      [] type = "multiSelect" -> {"in", "notIn"}
      [] type = "boolean" -> {"is"}

C20_OperatorIsLegalForField ==
    Building =>
        \A i \in 1..Len(filters) :
            /\ FindField(filters[i].field) # 0
            /\ filters[i].operator
                   \in LegalOperators(fields[FindField(filters[i].field)].type)

\* Two conditions on fields of different types, the second with an
\* operator that is not the first of its list and a value that was entered
TwoTypesWithChosenOperatorReached ==
    /\ Building
    /\ Len(filters) = 2
    /\ filters[1].field = <<"name">> /\ filters[1].operator = "contains"
    /\ filters[2].field = <<"id">> /\ filters[2].operator = "lessThanOrEqual"
    /\ filters[2].value = Num(30)

(***************************************************************************)
(* C21.  After any sequence of builder operations, every condition's       *)
(* value has the shape prescribed for the type of its field: a string for  *)
(* text and singleSelect, a number for number, a boolean for boolean, a    *)
(* sequence of strings for multiSelect, a {min, max} record for amount and *)
(* a {startDate, endDate} record for date; in particular changing a row's  *)
(* field never leaves a value of the previous field's shape.               *)
(*                                                                         *)
(* As stated it fails on a number field: the default value of a number     *)
(* condition, and the value NumberInput hands over when its text is        *)
(* cleared, is the empty string.  Amended: a number or the empty string    *)
(* for number.  The bounds of a range are null or a number, those of a     *)
(* date range null or a non-empty string.                                  *)
(***************************************************************************)
NullOr(shape, b) == IsNull(b) \/ b.k = shape

HasShape(type, value) ==
    CASE type \in {"text", "singleSelect"} -> value.k = "string"
      [] type = "number" -> value.k = "number" /\ ~value.nan
      [] type = "boolean" -> value.k = "boolean"
      [] type = "multiSelect" -> IsArray(value)
      [] type = "amount" ->
            /\ value.k = "range"
            /\ NullOr("number", value.min) /\ NullOr("number", value.max)
      [] type = "date" ->
            /\ value.k = "dateRange"
            /\ NullOr("string", value.startDate)
            /\ NullOr("string", value.endDate)
            /\ ~IsEmptyString(value.startDate)
            /\ ~IsEmptyString(value.endDate)
      [] OTHER -> FALSE

FieldTypeOf(filter) ==
    IF FindField(filter.field) = 0 THEN "none"
    ELSE fields[FindField(filter.field)].type

\* C21 as stated
C21_ValueHasShapeOfFieldType ==
    Building =>
        \A i \in 1..Len(filters) :
            HasShape(FieldTypeOf(filters[i]), filters[i].value)

\* C21 amended: the value of a number condition may be the empty string
C21_ValueHasShapeOrIsEmptyNumber ==
    Building =>
        \A i \in 1..Len(filters) :
            \/ HasShape(FieldTypeOf(filters[i]), filters[i].value)
            \/ /\ FieldTypeOf(filters[i]) = "number"
               /\ IsEmptyString(filters[i].value)

\* The first row was moved from the date field to the amount field and
\* given a lower bound; the second row is on the date field with a start
\* date
FieldChangedThenValueEnteredReached ==
    /\ Building
    /\ Len(filters) = 2
    /\ filters[1].field = <<"salary">>
    /\ filters[1].value = Range(Num(30), Null)
    /\ filters[2].field = <<"joinDate">>
    /\ filters[2].value = DateRange(Str(Mar15), Null)

(***************************************************************************)
(* C22.  The result of applyFilters does not depend on the order of the    *)
(* conditions: for every record list R and every permutation C' of a       *)
(* condition list C, applyFilters(R, C') equals applyFilters(R, C).        *)
(*                                                                         *)
(* Equal means the same outcome: the same list returned, or a TypeError    *)
(* thrown by both calls.                                                   *)
(***************************************************************************)
\* The condition lists that hold the conditions of filters in another order
PermutationsOfFilters ==
    {[i \in FilterIndices |-> filters[p[i]]] :
        p \in Permutations(FilterIndices)}

C22_ConditionOrderIsIrrelevant ==
    Called =>
        \A cs \in PermutationsOfFilters :
            /\ applyFilters(data, cs).outcome = outcome
            /\ applyFilters(data, cs).value = result

\* Three valid conditions, the first and the third on one field and the
\* second on another, that keep one of two records
InterleavedFieldsReached ==
    /\ Returned
    /\ Len(filters) = 3 /\ Len(validSeen) = 3
    /\ filters[1].field = filters[3].field
    /\ filters[1].operator # filters[3].operator
    /\ filters[2].field # filters[1].field
    /\ Len(data) = 2 /\ Len(result) = 1

(***************************************************************************)
(* C23.  Adding one valid condition c to a condition list C changes the    *)
(* result monotonically by field: if no valid condition of C is on c's     *)
(* field, applyFilters(R, C + [c]) is a subsequence of applyFilters(R, C)  *)
(* (the result can only shrink); if some valid condition of C is already   *)
(* on c's field, applyFilters(R, C) is a subsequence of                    *)
(* applyFilters(R, C + [c]) (the result can only grow).                    *)
(*                                                                         *)
(* The call was made with C + [c]: c is the last condition of filters.     *)
(* When it returns, the call with C returns too, its valid conditions      *)
(* being among those of C + [c].                                           *)
(***************************************************************************)
LastCondition == filters[Len(filters)]
EarlierConditions == SubSeq(filters, 1, Len(filters) - 1)

HasValidConditionOn(cs, field) ==
    \E j \in 1..Len(cs) : hasValidFilterValue(cs[j]) /\ cs[j].field = field

C23_AddedConditionIsMonotone ==
    (Returned /\ Len(filters) >= 1 /\ hasValidFilterValue(LastCondition)) =>
        LET before == applyFilters(data, EarlierConditions)
        IN  /\ before.outcome = "returned"
            /\ IF HasValidConditionOn(EarlierConditions, LastCondition.field)
               THEN IsSubsequence(before.value, result)
               ELSE IsSubsequence(result, before.value)

\* A second valid condition on the field of the first brings back a record
\* the first had excluded
SecondConditionOnFieldGrowsResultReached ==
    /\ Returned
    /\ Len(filters) = 2 /\ Len(validSeen) = 2
    /\ filters[1].field = filters[2].field
    /\ Len(data) = 2
    /\ Len(applyFilters(data, EarlierConditions).value) = 1
    /\ result = data

\* A valid condition on a field without one excludes a record
ConditionOnNewFieldShrinksResultReached ==
    /\ Returned
    /\ Len(filters) = 2 /\ Len(validSeen) = 2
    /\ filters[1].field # filters[2].field
    /\ applyFilters(data, EarlierConditions).value = data
    /\ Len(data) = 2 /\ Len(result) = 1

(***************************************************************************)
(* The application.  App holds the condition list; the builder hands       *)
(* handleFiltersChange a new list, App computes filteredData from it and   *)
(* DataTable, whose sort config is kept, computes its memo on the new      *)
(* list.  AppSpec is the table with the condition list changing.           *)
(***************************************************************************)
\* A change of the condition list on which the memo of the table is not
\* computed anew
handleFiltersChangeStaleSort(newFilters) ==
    /\ outcome = "returned"
    /\ filters' = WithIds(newFilters)
    /\ LET r == applyFilters(data, filters')
       IN  outcome' = r.outcome /\ result' = r.value
    /\ validSeen' = SelectSeq(filters', hasValidFilterValue)
    /\ UNCHANGED <<data, tz, call, ret, sortConfig, sortedData, fields>>

\* setFilters(newFilters) and the render that follows
handleFiltersChange(newFilters) ==
    /\ outcome = "returned"
    /\ filters' = WithIds(newFilters)
    /\ LET r == applyFilters(data, filters')
       IN  /\ outcome' = r.outcome
           /\ \E effect \in sortedDataMemo(r.value, sortConfig) :
                 result' = effect.rows /\ sortedData' = effect.returned
    /\ validSeen' = SelectSeq(filters', hasValidFilterValue)
    /\ UNCHANGED <<data, tz, call, ret, sortConfig, fields>>

AppNext ==
    \/ Render
    \/ \E columnKey \in SortableColumns : handleSort(columnKey)
    \/ \E newFilters \in TableFilterLists : handleFiltersChange(newFilters)

AppSpec == TableInit /\ [][AppNext]_vars

(***************************************************************************)
(* C24.  After any interleaving of filter edits and column-header clicks,  *)
(* the rows shown by the table are a permutation of                        *)
(* applyFilters(employeeData, current conditions): the sort step never     *)
(* drops, adds or duplicates a record, and the current sort config keeps   *)
(* being applied when the condition list changes.                          *)
(*                                                                         *)
(* The sort config is applied to a list when no two of its rows stand in   *)
(* the order the comparator forbids.                                       *)
(***************************************************************************)
IsPermutationOf(xs, ys) ==
    /\ Len(xs) = Len(ys)
    /\ \E p \in Permutations(1..Len(xs)) :
          \A i \in 1..Len(xs) : xs[i] = ys[p[i]]

InOrder(a, b, config) ==
    compare(a, b, config) <= 0 \/ compare(b, a, config) >= 0

OrderedBy(rows, config) ==
    \A i, j \in 1..Len(rows) : i < j => InOrder(rows[i], rows[j], config)

C24_ShownRowsArePermutationOfFiltered ==
    Rendered =>
        /\ IsPermutationOf(sortedData, applyFilters(data, filters).value)
        /\ sortConfig = Null => sortedData = applyFilters(data, filters).value
        /\ sortConfig # Null => OrderedBy(sortedData, sortConfig)

\* Under a descending sort and two conditions the table shows two of three
\* records, in another order than the filter returned them
SortKeptUnderConditionsReached ==
    /\ Rendered
    /\ sortConfig = [key |-> <<"id">>, direction |-> "desc"]
    /\ Len(filters) = 2 /\ Len(validSeen) = 2
    /\ Len(data) = 3 /\ Len(sortedData) = 2
    /\ sortedData # applyFilters(data, filters).value

(***************************************************************************)
(* C25.  The sort config starts unset; clicking a column header sets it to *)
(* that column with direction desc iff the config was already that same    *)
(* column with direction asc, and to that column with direction asc in     *)
(* every other case, so repeated clicks on one column alternate asc, desc, *)
(* asc, ..., a click on a different column always yields asc, and once set *)
(* the config never returns to unset.                                      *)
(***************************************************************************)
\* The sort config after a click on the header of the column key
ConfigAfterClick(config, key) ==
    IF config = [key |-> key, direction |-> "asc"]
    THEN [key |-> key, direction |-> "desc"]
    ELSE [key |-> key, direction |-> "asc"]

C25_ClickAlternatesDirection ==
    /\ sortConfig = Null
    /\ [][/\ \A key \in SortableColumns :
                handleSort(key) => sortConfig' = ConfigAfterClick(sortConfig, key)
          /\ sortConfig # Null => sortConfig' # Null
          /\ sortConfig' # sortConfig =>
                \E key \in SortableColumns : handleSort(key)]_vars

\* Two clicks on the header of the name column
SecondClickOnColumnReached ==
    /\ Rendered
    /\ sortConfig = [key |-> <<"name">>, direction |-> "desc"]
    /\ Len(sortedData) >= 2

(***************************************************************************)
(* C26.  A condition that was just added, or whose field was just changed, *)
(* carries the default value of its field's type; for text, number,        *)
(* singleSelect, multiSelect, date and amount that default is invalid, so  *)
(* the filtered result is the same as without the condition until a value  *)
(* is entered, whereas for a boolean field the default value true is valid *)
(* and immediately restricts the result to records whose field is true.    *)
(*                                                                         *)
(* The filtered result is applyFilters(employeeData, filters), which App   *)
(* computes at every change of the condition list.  As stated the claim    *)
(* fails for a boolean condition when the list holds another valid         *)
(* condition on the same field: the two are alternatives, and the records  *)
(* the other one passes stay in the result.  Amended: the result is        *)
(* restricted to the records whose field is true when no other valid       *)
(* condition is on the field, and can only grow when one is.               *)
(*                                                                         *)
(* The effect of a default is stated of every condition that holds one, in *)
(* every state: it lasts until a value is entered.                         *)
(***************************************************************************)
\* The three employees, in the order of their ids
employeeData == [i \in 1..3 |-> CHOOSE e \in Employees : e.f.id = Num(i)]

FilteredBy(cs) == applyFilters(employeeData, cs).value

\* The list cs without its i-th condition
Without(cs, i) == SubSeq(cs, 1, i - 1) \o SubSeq(cs, i + 1, Len(cs))

IsDefaultOf(type, value) ==
    CASE type \in {"text", "number", "singleSelect"} -> IsEmptyString(value)
      [] type = "multiSelect" -> value = Arr(<<>>)
      [] type = "date" -> value = DateRange(Null, Null)
      [] type = "amount" -> value = Range(Null, Null)
      [] type = "boolean" -> value = Bool(TRUE)
      [] OTHER -> FALSE

\* The records of rows whose value at the path field is true
WhereTrue(rows, field) ==
    SelectSeq(rows, LAMBDA r : getNestedValue(r, field) = Bool(TRUE))

\* The i-th condition of the next condition list is new, or has another
\* field than the condition of its id had
JustAdded(i) == Len(filters') = Len(filters) + 1 /\ i = Len(filters')

FieldJustChanged(i) ==
    \E j \in 1..Len(filters) :
        filters[j].id = filters'[i].id /\ filters[j].field # filters'[i].field

\* The next condition list holds the default of its type in every
\* condition that is new or has another field
TouchedConditionsHoldDefault ==
    \A i \in 1..Len(filters') :
        (JustAdded(i) \/ FieldJustChanged(i)) =>
            IsDefaultOf(FieldTypeOf(filters'[i]), filters'[i].value)

\* The i-th condition, which holds a default that is not that of a boolean
\* field, is invalid and without effect on the result
IdleDefault(i) ==
    /\ ~hasValidFilterValue(filters[i])
    /\ FilteredBy(filters) = FilteredBy(Without(filters, i))

\* The i-th condition, on a boolean field, holds true: it is valid and
\* restricts the result to the records whose field is true
BooleanDefaultRestricts(i) ==
    /\ hasValidFilterValue(filters[i])
    /\ FilteredBy(filters) =
           WhereTrue(FilteredBy(Without(filters, i)), filters[i].field)

\* The same, when no other valid condition is on the field; when one is,
\* the result holds the records it holds without the condition
LoneBooleanDefaultRestricts(i) ==
    /\ hasValidFilterValue(filters[i])
    /\ IF HasValidConditionOn(Without(filters, i), filters[i].field)
       THEN IsSubsequence(FilteredBy(Without(filters, i)),
                          FilteredBy(filters))
       ELSE FilteredBy(filters) =
                WhereTrue(FilteredBy(Without(filters, i)), filters[i].field)

\* The conditions that hold the default of their type
DefaultIndices ==
    {i \in 1..Len(filters) :
        IsDefaultOf(FieldTypeOf(filters[i]), filters[i].value)}

\* C26 as stated
C26_DefaultIsIdleButBoolean ==
    /\ [](Building =>
            \A i \in DefaultIndices :
                IF FieldTypeOf(filters[i]) = "boolean"
                THEN BooleanDefaultRestricts(i)
                ELSE IdleDefault(i))
    /\ [][TouchedConditionsHoldDefault]_vars

\* C26 amended: a boolean default restricts the result when it is the only
\* valid condition on its field
C26_DefaultIsIdleButLoneBoolean ==
    /\ [](Building =>
            \A i \in DefaultIndices :
                IF FieldTypeOf(filters[i]) = "boolean"
                THEN LoneBooleanDefaultRestricts(i)
                ELSE IdleDefault(i))
    /\ [][TouchedConditionsHoldDefault]_vars

\* A new condition on the boolean field that excludes a record, and a
\* second condition moved to the text field that excludes none
BooleanDefaultRestrictsReached ==
    /\ Building
    /\ Len(filters) = 2
    /\ filters[1].field = <<"isActive">> /\ filters[1].value = Bool(TRUE)
    /\ filters[2].field = <<"name">> /\ filters[2].value = Str(<<>>)
    /\ Len(FilteredBy(filters)) = 2

(***************************************************************************)
(* C27.  Builder operations touch only their target: updating a condition  *)
(* by id changes only the updated properties of the condition with that id *)
(* and leaves the list length, the order and every other condition         *)
(* unchanged; removing by id deletes exactly the condition with that id    *)
(* and keeps the others in order; add appends one condition at the end     *)
(* without changing the existing ones; clear all yields the empty list.    *)
(*                                                                         *)
(* The update is stated of handleUpdateFilter on every condition list the  *)
(* builder reaches, with the updates FilterRow hands it; removal, addition *)
(* and clearing are stated of the steps, together with what every step     *)
(* that keeps the length of the list does to it.                           *)
(***************************************************************************)
\* The updates the row of the i-th condition hands to handleUpdateFilter:
\* on a change of field, of operator and of value
UpdatesOfRow(i) ==
    {[field |-> fields[k].key,
      operator |-> OPERATORS_BY_TYPE[fields[k].type][1],
      value |-> DefaultValue(fields[k].type)] : k \in 1..Len(fields)}
      \cup {[operator |-> availableOperators(filters[i])[o]] :
               o \in 1..Len(availableOperators(filters[i]))}
      \cup {[value |-> v] :
               v \in InputValues(fields[FindField(filters[i].field)],
                                 filters[i].value)}

\* The list updated is filters with the properties of updates set in its
\* i-th condition, and nothing else changed
IsUpdateOf(updated, i, updates) ==
    /\ Len(updated) = Len(filters)
    /\ \A j \in 1..Len(filters) :
          IF j = i
          THEN /\ DOMAIN updated[j] = DOMAIN filters[j]
               /\ \A p \in DOMAIN updates : updated[j][p] = updates[p]
               /\ \A p \in DOMAIN filters[j] \ DOMAIN updates :
                     updated[j][p] = filters[j][p]
          ELSE updated[j] = filters[j]

UpdateTouchesOnlyItsTarget ==
    Building =>
        \A i \in 1..Len(filters) :
            \A updates \in UpdatesOfRow(i) :
                IsUpdateOf(handleUpdateFilter(filters[i].id, updates),
                           i, updates)

\* The step changes one condition of the list at most, and not its id
ChangesOneConditionAtMost ==
    \E i \in 1..Len(filters) :
        /\ filters'[i].id = filters[i].id
        /\ \A j \in 1..Len(filters) : j # i => filters'[j] = filters[j]

C27_OperationsTouchOnlyTheirTarget ==
    /\ []UpdateTouchesOnlyItsTarget
    /\ [][/\ \A i \in 1..Len(filters) :
                handleRemoveFilter(i) => filters' = Without(filters, i)
          /\ handleAddFilter =>
                /\ Len(filters') = Len(filters) + 1
                /\ SubSeq(filters', 1, Len(filters)) = filters
          /\ handleClearAll => filters' = <<>>
          /\ Len(filters') = Len(filters) => ChangesOneConditionAtMost]_vars

\* The first of two rows was removed, a row was added after the one left,
\* and the one left was then given a value
UpdatedAfterRemoveAndAddReached ==
    /\ Building
    /\ Len(filters) = 2
    /\ filters[1].id = 2 /\ filters[2].id = 1
    /\ filters[1].value = Str(<<"a", "n">>)
    /\ filters[2].value = Str(<<>>)

=============================================================================
